---- MODULE Spec2Model ----
(***************************************************************************)
(* Model of the resumable captioning client (client_caption_arkive.py;     *)
(* client_caption_wavscp.py shares the replay function and the drain       *)
(* loop), of merge_jsonl.py and of monitor_progress.py.  The               *)
(* specifications are defined over the same variables:                     *)
(*                                                                         *)
(*   Spec         the engine: consecutive invocations of main() on one     *)
(*                ledger, all with or all without --resume, with the       *)
(*                worker pool, the drain loop and the log lock, from an    *)
(*                empty ledger; the main thread may be interrupted and the *)
(*                process may be killed at any point;                      *)
(*   SpecClean    the same engine with --resume and without interrupts or  *)
(*                kills, over more invocations;                            *)
(*   SpecReplay   the start-up of one resumed invocation on an arbitrary   *)
(*                ledger (any mix of ok, fail, other-status and            *)
(*                unparseable lines): range check, replay, filtering,      *)
(*                submission;                                              *)
(*   SpecMonitor  SpecReplay with analyze_jsonl reading the ledger;        *)
(*   SpecCut      resumed invocations with kills;                          *)
(*   SpecStore    the shard store: index, open_mmaps, reads, close_mmaps;  *)
(*   SpecLifetime SpecStore with an interrupted drain loop;                *)
(*   SpecTracker  the engine with ThroughputTracker under its lock,        *)
(*   SpecLive     the same under fair scheduling;                          *)
(*   SpecSampling the tracker over the values of --rtf-sample-rate;        *)
(*   SpecLoop     one invocation over a longer work list with one worker;  *)
(*   SpecLimiter  the RateLimiter of client_caption_wavscp.py;             *)
(*   SpecMerge    merge_jsonl.py, run on its input and on its own output.  *)
(*                                                                         *)
(* A ledger line is a record: parses (json.loads succeeds and yields an    *)
(* object), status, idx, has_ra (the retry_attempt key is present) and     *)
(* retry_attempt.  Lines reach the disk whole.  retry_counts is a function *)
(* whose DOMAIN is the key set of the Python dict.                         *)
(***************************************************************************)
EXTENDS Integers, Sequences, FiniteSets, TLC

\* ---------------------------------------------------------------- bounds
NumRecords == 2
MaxLedger == 3
MaxAttemptField == 2
MaxRuns == 2
MaxCleanRuns == 3
MaxPriorLines == 1
MaxShards == 2
MaxShardSize == 2
MaxMessageLen == 3
MaxClock == 5
MaxQueue == 2
MaxMetricLines == 2
MaxPolls == 3
MaxMergeRecords == 4
MaxItems == 11
MaxDuration == 2
MaxInterval == 3
LedgerIds == {0, 1}

\* ------------------------------------------------------- program constants
FlushEvery == 10

\* --checkpoint-interval, default=100
DefaultCheckpointInterval == 100

\* --rtf-sample-rate is a probability; the model counts probabilities in
\* units of 5e-9, so that PScale stands for 1.0 and MinRate for the 1e-8 of
\* line 458
PScale == 200000000
MinRate == 2

VARIABLES
    pc,            \* position of main()
    runs,          \* number of invocations of main() started so far
    ledger,        \* lines of out_jsonl that are on disk
    ledger0,       \* out_jsonl as it was when the current invocation began
    tsvfile,       \* lines of out_tsv that are on disk
    jbuf, tbuf,    \* lines written to jout / tsv and not yet flushed
    start_idx, end_idx, max_retries, max_workers, resume,   \* args
    scan_pos,      \* number of ledger lines consumed by the replay loop
    done, retry_counts,        \* ResumeState of the current invocation
    indices,       \* the filtered work list of the current invocation
    store_open,    \* the shard mmaps are open
    futures,       \* submitted id -> [state, retry_attempt, text]
    yielded,       \* ids whose future as_completed has already produced
    cur,           \* the id the drain loop is handling ({} when none)
    ok, fail, write_counter,
    lock,          \* the log lock: "free" or "main"
    calls,         \* id -> remote calls made for it in this invocation
    attempts,      \* id -> times a worker was started for it, over all invocations
    run_limit,     \* how many invocations are explored
    unlogged,      \* history: the items the previous invocation, cut short, left
                   \* without a ledger entry -> the attempt number they had in it
    shards,        \* the files arkive_*.bin in sorted order: [readable, size]
    rows,          \* the rows of metadata.parquet in file order
    index,         \* the array build_index returned (<<>> before it ran)
    mmaps, fds,    \* the lists open_mmaps fills and its caller keeps
    open_fds,      \* descriptors of the process got from os.open and not closed
    open_maps,     \* mappings of the process that are not closed
    views,         \* id -> what the fetch of its bytes produced
    caller,        \* who calls open_mmaps: "main" or "reader" (ArkiveReader)
    tracker,       \* the counters of the ThroughputTracker of main()
    tlock,         \* holder of tracker.lock: "free", "main" or a worker's thread
    wpc,           \* id -> where its worker stands once post_one has returned
    stats,         \* the local stats of the drain loop (None outside the report)
    rtf_sample_rate,           \* args
    checkpoint_interval,       \* args
    last_checkpoint,           \* processed at the last checkpoint report
    checkpoints,   \* history: processed at each checkpoint report of the invocation
    warnings,      \* history: the ledger lines the replay printed a skip warning for
    limiter,       \* a RateLimiter: its parameters, last_check and enabled
    now,           \* what time.time() returns
    polls,         \* history: the times at which get_queue_size was called
    answer,        \* history: the last should_throttle call
    all_records,   \* the records merge_jsonl.py loaded, in input order
    merged,        \* the dict merge_records returned (key -> record)
    merge_stats,   \* the stats merge_records returned
    output,        \* the lines of the merged file write_outputs wrote
    again,         \* merge_jsonl.py run once more, on the merged file: what it gave
    monitor        \* monitor_progress.py: the stats of the last analyze_jsonl

vars == <<pc, runs, ledger, ledger0, tsvfile, jbuf, tbuf, start_idx, end_idx,
          max_retries, max_workers, resume, scan_pos, done, retry_counts,
          indices, store_open, futures, yielded, cur, ok, fail,
          write_counter, lock, calls, attempts, run_limit, unlogged,
          shards, rows, index, mmaps, fds, open_fds, open_maps, views, caller,
          tracker, tlock, wpc, stats, rtf_sample_rate,
          checkpoint_interval, last_checkpoint, checkpoints, warnings,
          limiter, now, polls, answer, all_records, merged, merge_stats,
          output, again, monitor>>

args == <<start_idx, end_idx, max_retries, max_workers, resume, run_limit, ledger0>>
files == <<ledger, tsvfile, jbuf, tbuf>>
resume_state == <<scan_pos, done, retry_counts>>
pool == <<futures, yielded, cur, calls, attempts>>
counters == <<ok, fail, write_counter>>
store == <<shards, rows, index, mmaps, fds, open_fds, open_maps, views, caller>>
engine_main == <<pc, runs, args, files, resume_state, indices, store_open, counters, lock>>
tracking == <<tracker, tlock, wpc, stats, rtf_sample_rate>>
progress == <<checkpoint_interval, last_checkpoint, checkpoints, warnings>>
tools == <<limiter, now, polls, answer, all_records, merged, merge_stats, output, again,
          monitor>>
merging == <<all_records, merged, merge_stats, output, again>>
client == <<pc, runs, args, files, resume_state, indices, store_open, pool,
            counters, lock, unlogged, tracking, progress, store>>

\* --------------------------------------------------------------- helpers
Ids == 0 .. (NumRecords - 1)

EmptyMap == [i \in {} |-> 0]

Min(a, b) == IF a < b THEN a ELSE b

\* dict.get(key, default)
Get(d, key, default) == IF key \in DOMAIN d THEN d[key] ELSE default

\* dict.pop(key, None)
Pop(d, key) == [i \in (DOMAIN d) \ {key} |-> d[i]]

\* d[key] = value
Put(d, key, value) == [i \in (DOMAIN d) \cup {key} |-> IF i = key THEN value ELSE d[i]]

\* ------------------------------------------------- load_done_and_retry_info
\* ReplayLine with "the last entry wins": a fail entry takes the id out of done
ReplayLineLastWins(st, ln) ==
    IF ~ln.parses
    THEN st
    ELSE IF ln.status = "ok"
    THEN [done |-> st.done \cup {ln.idx},
          retry_counts |-> Pop(st.retry_counts, ln.idx)]
    ELSE IF ln.status = "fail"
    THEN [done |-> st.done \ {ln.idx},
          retry_counts |-> Put(st.retry_counts, ln.idx,
                               IF ln.has_ra THEN ln.retry_attempt
                               ELSE Get(st.retry_counts, ln.idx, 0) + 1)]
    ELSE st

\* ReplayLine that counts fail entries and ignores their retry_attempt field
ReplayLineCountOnly(st, ln) ==
    IF ~ln.parses
    THEN st
    ELSE IF ln.status = "ok"
    THEN [done |-> st.done \cup {ln.idx},
          retry_counts |-> Pop(st.retry_counts, ln.idx)]
    ELSE IF ln.status = "fail"
    THEN [done |-> st.done,
          retry_counts |-> Put(st.retry_counts, ln.idx,
                               Get(st.retry_counts, ln.idx, 0) + 1)]
    ELSE st

\* ReplayLine whose exception handler starts over: an unparseable line
\* drops what was read before it
ReplayLineResetOnCorrupt(st, ln) ==
    IF ~ln.parses
    THEN [done |-> {}, retry_counts |-> [i \in {} |-> 0]]
    ELSE IF ln.status = "ok"
    THEN [done |-> st.done \cup {ln.idx},
          retry_counts |-> Pop(st.retry_counts, ln.idx)]
    ELSE IF ln.status = "fail"
    THEN [done |-> st.done,
          retry_counts |-> Put(st.retry_counts, ln.idx,
                               IF ln.has_ra THEN ln.retry_attempt
                               ELSE Get(st.retry_counts, ln.idx, 0) + 1)]
    ELSE st

\* ReplayLine that ignores a fail entry of an id that is already in done
ReplayLineSkipDone(st, ln) ==
    IF ~ln.parses
    THEN st
    ELSE IF ln.status = "ok"
    THEN [done |-> st.done \cup {ln.idx},
          retry_counts |-> Pop(st.retry_counts, ln.idx)]
    ELSE IF ln.status = "fail" /\ ln.idx \notin st.done
    THEN [done |-> st.done,
          retry_counts |-> Put(st.retry_counts, ln.idx,
                               IF ln.has_ra THEN ln.retry_attempt
                               ELSE Get(st.retry_counts, ln.idx, 0) + 1)]
    ELSE st

\* One iteration of the "for ln in f" loop: st is <<done, retry_counts>>.
ReplayLine(st, ln) ==
    IF ~ln.parses
    THEN st                                   \* except Exception: pass
    ELSE IF ln.status = "ok"
    THEN [done |-> st.done \cup {ln.idx},
          retry_counts |-> Pop(st.retry_counts, ln.idx)]
    ELSE IF ln.status = "fail"
    THEN [done |-> st.done,
          retry_counts |-> Put(st.retry_counts, ln.idx,
                               IF ln.has_ra THEN ln.retry_attempt
                               ELSE Get(st.retry_counts, ln.idx, 0) + 1)]
    ELSE st

\* what one iteration of the loop prints for line number n: the handler of
\* an unparseable line is `except Exception: pass`, and no other statement of
\* the loop prints
SkipWarning(ln, n) == <<>>

RECURSIVE ReplayFrom(_, _, _)
ReplayFrom(st, lines, n) ==
    IF n > Len(lines) THEN st
    ELSE ReplayFrom(ReplayLine(st, lines[n]), lines, n + 1)

EmptyResume == [done |-> {}, retry_counts |-> EmptyMap]

load_done_and_retry_info(lines) == ReplayFrom(EmptyResume, lines, 1)

\* ------------------------------------------------------------ main, start-up
\* end_idx = min(end_idx, total_count); NoEnd stands for --end-idx not given
NoEnd == NumRecords + 1

\* ClampEnd without the clamp
ClampEndNone(e) == e

ClampEnd(e) == Min(e, NumRecords)

\* FilterIndices with > for >= in the retry test
RECURSIVE FilterIndicesOffByOne(_, _, _, _, _)
FilterIndicesOffByOne(i, e, dn, rc, k) ==
    IF i >= e THEN <<>>
    ELSE IF i \in dn THEN FilterIndicesOffByOne(i + 1, e, dn, rc, k)
    ELSE IF Get(rc, i, 0) > k THEN FilterIndicesOffByOne(i + 1, e, dn, rc, k)
    ELSE <<i>> \o FilterIndicesOffByOne(i + 1, e, dn, rc, k)

\* FilterIndices without the test of done
RECURSIVE FilterIndicesNoDone(_, _, _, _, _)
FilterIndicesNoDone(i, e, dn, rc, k) ==
    IF i >= e THEN <<>>
    ELSE IF Get(rc, i, 0) >= k THEN FilterIndicesNoDone(i + 1, e, dn, rc, k)
    ELSE <<i>> \o FilterIndicesNoDone(i + 1, e, dn, rc, k)

\* the loop "for idx in all_indices" that builds indices
RECURSIVE FilterIndices(_, _, _, _, _)
FilterIndices(i, e, dn, rc, k) ==
    IF i >= e THEN <<>>
    ELSE IF i \in dn THEN FilterIndices(i + 1, e, dn, rc, k)
    ELSE IF Get(rc, i, 0) >= k THEN FilterIndices(i + 1, e, dn, rc, k)
    ELSE <<i>> \o FilterIndices(i + 1, e, dn, rc, k)

\* Range(s) of a sequence
SeqRange(s) == {s[n] : n \in 1 .. Len(s)}

\* ---------------------------------------------------------------- lines
\* the keys of the dict a worker returns on success and on failure
OkKeys ==
    {"idx", "caption", "usage", "status", "processing_time", "retry_attempt",
     "audio_duration", "sample_rate", "mime_type", "compressed_size"}

FailKeys == {"idx", "error", "status", "processing_time", "retry_attempt"}

\* EntryLine whose fail entries carry "caption": null
EntryLineNullCaption(i, st, ra, err, msg, cap) ==
    [parses |-> TRUE, status |-> st, idx |-> i, has_ra |-> TRUE, retry_attempt |-> ra,
     keys |-> IF st = "ok" THEN OkKeys ELSE FailKeys \cup {"caption"},
     error |-> err, message |-> msg, caption |-> cap]

\* json.dumps(res) of a worker result, as the replay reads it back.  The
\* value of "error" is str(e): error is the kind of exception it describes,
\* message its characters; caption is the text of the answer
EntryLine(i, st, ra, err, msg, cap) ==
    [parses |-> TRUE, status |-> st, idx |-> i, has_ra |-> TRUE, retry_attempt |-> ra,
     keys |-> IF st = "ok" THEN OkKeys ELSE FailKeys,
     error |-> err, message |-> msg, caption |-> cap]

CorruptLine ==
    [parses |-> FALSE, status |-> "none", idx |-> 0, has_ra |-> FALSE, retry_attempt |-> 0]

\* the lines an arbitrary ledger is drawn from
LineSet ==
    {CorruptLine}
    \cup {[parses |-> TRUE, status |-> "skipped", idx |-> 0, has_ra |-> FALSE, retry_attempt |-> 0]}
    \cup {[parses |-> TRUE, status |-> "ok", idx |-> i, has_ra |-> TRUE, retry_attempt |-> 1] : i \in LedgerIds}
    \cup {[parses |-> TRUE, status |-> "fail", idx |-> i, has_ra |-> TRUE, retry_attempt |-> a] :
             i \in LedgerIds, a \in 1 .. MaxAttemptField}
    \cup {[parses |-> TRUE, status |-> "fail", idx |-> i, has_ra |-> FALSE, retry_attempt |-> 0] : i \in LedgerIds}

Ledgers == UNION {[1 .. n -> LineSet] : n \in 0 .. MaxLedger}

\* ------------------------------------------------------- ThroughputTracker
\* ThroughputTracker.__init__: the counters and the audio total (durations are
\* whole seconds; total_processing_time is left out)
NewTracker ==
    [processed |-> 0, total_audio_seconds |-> 0, samples_with_duration |-> 0,
     samples_without_duration |-> 0]

\* get_stats returned None, or the local stats is not in use
NoStats ==
    [none |-> TRUE, processed |-> 0, samples_with_duration |-> 0,
     samples_without_duration |-> 0]

\* the dict get_stats returns (the counters in it)
Snapshot(tr) ==
    [none |-> FALSE, processed |-> tr.processed,
     samples_with_duration |-> tr.samples_with_duration,
     samples_without_duration |-> tr.samples_without_duration]

\* update, lines 269-275: `if audio_duration_seconds:` is false for None and
\* for 0.0, which are both written 0 here
CountSample(tr, d) ==
    IF d.audio_duration > 0
    THEN [tr EXCEPT !.total_audio_seconds = @ + d.audio_duration * d.sample_weight,
                    !.samples_with_duration = @ + 1]
    ELSE [tr EXCEPT !.samples_without_duration = @ + 1]

\* ThroughputTracker.update: the body under the lock
TrackerUpdate(tr, d) == CountSample([tr EXCEPT !.processed = @ + 1], d)

\* the durations an item's audio can have, in seconds
Durations == 1 .. MaxDuration

\* worker, lines 450-451 and 460-461: audio_duration = None, sample_weight = 1.0
NoDuration == [audio_duration |-> 0, sample_weight |-> 1]

\* SampleWeight that leaves the weight at 1.0
SampleWeightOne(rate) == 1

\* worker, line 458: 1.0 / max(args.rtf_sample_rate, 1e-8)
SampleWeight(rate) == PScale \div (IF rate > MinRate THEN rate ELSE MinRate)

\* worker, lines 450-461: the audio_duration and sample_weight the worker
\* can go on with.  With rtf_sample_rate > 0 the duration is decoded when
\* random.random() < rtf_sample_rate; it stays None when the draw fails and
\* when the decoding raises or reports no sample rate.
Sampled(rate) ==
    IF rate > 0
    THEN {NoDuration}
         \cup {[audio_duration |-> d, sample_weight |-> SampleWeight(rate)] : d \in Durations}
    ELSE {NoDuration}

\* ---------------------------------------------------------------- start-up
Stopped == {"idle", "invalid", "nothing", "fatal", "done", "crashed", "killed"}

\* main, lines 329-352: a new invocation on the same files; without --resume
\* the replay is skipped
BeginRun ==
    /\ pc \in Stopped
    /\ runs < run_limit
    /\ runs' = runs + 1
    /\ scan_pos' = 0
    /\ done' = {}
    /\ retry_counts' = EmptyMap
    /\ indices' = <<>>
    /\ futures' = EmptyMap
    /\ calls' = EmptyMap
    /\ yielded' = {}
    /\ cur' = {}
    /\ ok' = 0 /\ fail' = 0 /\ write_counter' = 0
    /\ lock' = "free"
    /\ store_open' = FALSE
    /\ pc' = IF start_idx >= ClampEnd(end_idx) THEN "invalid"
             ELSE IF resume THEN "replay" ELSE "filter"
    /\ ledger0' = ledger
    /\ unlogged' = IF pc \in {"crashed", "killed"} THEN unlogged ELSE EmptyMap
    /\ mmaps' = <<>> /\ fds' = <<>>
    /\ open_fds' = {} /\ open_maps' = {}
    /\ views' = EmptyMap
    /\ tracker' = NewTracker /\ tlock' = "free"
    /\ wpc' = EmptyMap /\ stats' = NoStats
    /\ last_checkpoint' = 0 /\ checkpoints' = <<>>
    /\ warnings' = <<>>
    /\ UNCHANGED <<start_idx, end_idx, max_retries, max_workers, resume,
                   run_limit, files, attempts, shards, rows, index, caller,
                   rtf_sample_rate, checkpoint_interval, tools>>

\* load_done_and_retry_info: one iteration of the loop over the file's lines
ReplayStep ==
    /\ pc = "replay"
    /\ scan_pos < Len(ledger)
    /\ scan_pos' = scan_pos + 1
    /\ LET st == ReplayLine([done |-> done, retry_counts |-> retry_counts],
                            ledger[scan_pos + 1])
       IN /\ done' = st.done
          /\ retry_counts' = st.retry_counts
    /\ warnings' = warnings \o SkipWarning(ledger[scan_pos + 1], scan_pos + 1)
    /\ UNCHANGED <<store, tools, checkpoint_interval, last_checkpoint, checkpoints, tracking,
                   unlogged, pc, runs, args, files, indices, store_open, pool,
                   counters, lock>>

\* load_done_and_retry_info returns at end of file
ReplayEnd ==
    /\ pc = "replay"
    /\ scan_pos = Len(ledger)
    /\ pc' = "filter"
    /\ UNCHANGED <<store, tools, progress, tracking, unlogged, runs, args, files, resume_state, indices, store_open,
                   pool, counters, lock>>

\* Filter that has opened the output files for writing before the work list
\* is looked at
FilterTruncates ==
    /\ pc = "filter"
    /\ indices' = FilterIndices(start_idx, ClampEnd(end_idx), done, retry_counts, max_retries)
    /\ pc' = IF Len(indices') = 0 THEN "nothing" ELSE "ready"
    /\ ledger' = <<>> /\ tsvfile' = <<>>
    /\ UNCHANGED <<store, tools, progress, tracking, unlogged, runs, args, jbuf, tbuf,
                   resume_state, store_open, pool, counters, lock>>

\* main, lines 354-375
Filter ==
    /\ pc = "filter"
    /\ indices' = FilterIndices(start_idx, ClampEnd(end_idx), done, retry_counts, max_retries)
    /\ pc' = IF Len(indices') = 0 THEN "nothing" ELSE "ready"
    /\ UNCHANGED <<store, tools, progress, tracking, unlogged, runs, args, files, resume_state, store_open, pool,
                   counters, lock>>

InitCommon ==
    /\ pc = "idle"
    /\ ledger0 = <<>>
    /\ tsvfile = <<>> /\ jbuf = <<>> /\ tbuf = <<>>
    /\ scan_pos = 0 /\ done = {} /\ retry_counts = EmptyMap
    /\ indices = <<>>
    /\ store_open = FALSE
    /\ futures = EmptyMap /\ yielded = {} /\ cur = {}
    /\ ok = 0 /\ fail = 0 /\ write_counter = 0
    /\ lock = "free"
    /\ calls = EmptyMap
    /\ attempts = [i \in Ids |-> 0]
    /\ unlogged = EmptyMap
    /\ mmaps = <<>> /\ fds = <<>>
    /\ open_fds = {} /\ open_maps = {}
    /\ views = EmptyMap
    /\ tracker = NewTracker /\ tlock = "free"
    /\ wpc = EmptyMap /\ stats = NoStats
    /\ last_checkpoint = 0 /\ checkpoints = <<>>
    /\ warnings = <<>>

\* the engine taken on its own: open_mmaps is the single step OpenStore and
\* the fetch is part of the attempt's outcome, so the shard files and the
\* metadata are left out
NoStore ==
    /\ shards = <<>>
    /\ rows = <<>>
    /\ index = <<>>
    /\ caller = "main"

\* no should_throttle call has been made
NoCall == [called |-> FALSE, polled |-> FALSE, queue_size |-> [none |-> TRUE, value |-> 0],
           result |-> FALSE]

\* analyze_jsonl has not been called
NoScan == [scanned |-> FALSE, total_lines |-> 0, unique_utts |-> {},
            successful_utts |-> {}, failed_utts |-> {}]

\* merge_jsonl.py has not been run on its own output
NoRerun == [ran |-> FALSE, all_records |-> <<>>, merged |-> EmptyMap,
            stats |-> EmptyMap, output |-> <<>>]

\* no RateLimiter is made (main never makes one) and merge_jsonl.py is not run
NoTools ==
    /\ limiter = [enabled |-> FALSE, last_check |-> 0, max_queue_size |-> 0,
                  check_interval |-> 0]
    /\ now = 0
    /\ polls = <<>>
    /\ answer = NoCall
    /\ all_records = <<>>
    /\ merged = EmptyMap
    /\ merge_stats = EmptyMap
    /\ output = <<>>
    /\ again = NoRerun
    /\ monitor = NoScan

\* --rtf-sample-rate and --checkpoint-interval are left at their defaults
Defaults ==
    /\ rtf_sample_rate = 0
    /\ checkpoint_interval = DefaultCheckpointInterval
    /\ NoTools

\* ------------------------------------------------------------------ engine
Submitted == DOMAIN futures
Terminal == {"Succeeded", "Failed"}
InFlight == {i \in Submitted : futures[i].state = "InFlight"}
PoolAlive == pc \in {"drain", "locked", "counted", "stats", "snapshot", "report", "unwind"}

\* history: the items of the work list that have no line among those the
\* current invocation added to lines, with the attempt number it gave them
Unlogged(lines) ==
    [i \in {j \in SeqRange(indices) :
                \A n \in (Len(ledger0) + 1) .. Len(lines) : lines[n].idx # j}
        |-> Get(retry_counts, i, 0) + 1]

\* closing jout and tsv (leaving the with block) writes out what is buffered
FlushedLedger == ledger \o jbuf
FlushedTsv == tsvfile \o tbuf

\* open_mmaps, main line 399: an exception here leaves main before any work
OpenStore(success) ==
    /\ pc = "ready"
    /\ store_open' = success
    /\ pc' = IF success THEN "opened" ELSE "fatal"
    /\ UNCHANGED <<store, tools, progress, tracking, unlogged, runs, args, files, resume_state, indices, pool,
                   counters, lock>>

\* SubmitAll with the output files opened in mode "w" when --resume is absent
SubmitAllTruncate ==
    /\ pc = "opened"
    /\ futures' = [i \in SeqRange(indices) |->
                     [state |-> "Pending", retry_attempt |-> 0, text |-> TRUE,
                      error |-> "none", message |-> <<>>, caption |-> <<>>]]
    /\ calls' = [i \in SeqRange(indices) |-> 0]
    /\ ledger' = IF resume THEN ledger ELSE <<>>
    /\ tsvfile' = IF resume THEN tsvfile ELSE <<>>
    /\ pc' = "drain"
    /\ UNCHANGED <<store, tools, progress, tracking, unlogged, runs, args, jbuf, tbuf, resume_state, indices,
                   store_open, yielded, cur, attempts, counters, lock>>

\* with ThreadPoolExecutor(...) as ex, open(out_jsonl, "a"), open(out_tsv, "a"):
\* futures = {ex.submit(worker, idx): idx for idx in indices}
SubmitAll ==
    /\ pc = "opened"
    /\ futures' = [i \in SeqRange(indices) |->
                     [state |-> "Pending", retry_attempt |-> 0, text |-> TRUE,
                      error |-> "none", message |-> <<>>, caption |-> <<>>]]
    /\ calls' = [i \in SeqRange(indices) |-> 0]
    /\ pc' = "drain"
    /\ UNCHANGED <<store, tools, progress, tracking, unlogged, runs, args, files, resume_state, indices, store_open,
                   yielded, cur, attempts, counters, lock>>

\* the pool hands queued work to a free thread in submission order
FirstPending(i) ==
    \E n \in 1 .. Len(indices) :
        /\ indices[n] = i
        /\ futures[i].state = "Pending"
        /\ \A m \in 1 .. (n - 1) : futures[indices[m]].state # "Pending"

\* WorkerStart that numbers every attempt 1 instead of reading retry_counts
WorkerStartFirstAttempt(i) ==
    /\ PoolAlive
    /\ i \in Submitted
    /\ FirstPending(i)
    /\ Cardinality(InFlight) < max_workers
    /\ futures' = [futures EXCEPT ![i].state = "InFlight",
                                  ![i].retry_attempt = 1]
    /\ attempts' = [attempts EXCEPT ![i] = @ + 1]
    /\ UNCHANGED <<store, tools, progress, tracking, unlogged, pc, runs, args, files, resume_state, indices,
                   store_open, yielded, cur, calls, counters, lock>>

\* WorkerStart with a thread for every submitted item
WorkerStartUnbounded(i) ==
    /\ PoolAlive
    /\ i \in Submitted
    /\ FirstPending(i)
    /\ futures' = [futures EXCEPT ![i].state = "InFlight",
                                  ![i].retry_attempt = Get(retry_counts, i, 0) + 1]
    /\ attempts' = [attempts EXCEPT ![i] = @ + 1]
    /\ UNCHANGED <<store, tools, progress, tracking, unlogged, pc, runs, args, files, resume_state, indices,
                   store_open, yielded, cur, calls, counters, lock>>

\* worker, lines 414-416: a pool thread picks the item up
WorkerStart(i) ==
    /\ PoolAlive
    /\ i \in Submitted
    /\ FirstPending(i)
    /\ Cardinality(InFlight) < max_workers
    /\ futures' = [futures EXCEPT ![i].state = "InFlight",
                                  ![i].retry_attempt = Get(retry_counts, i, 0) + 1]
    /\ attempts' = [attempts EXCEPT ![i] = @ + 1]
    /\ UNCHANGED <<store, tools, progress, tracking, unlogged, pc, runs, args, files, resume_state, indices,
                   store_open, yielded, cur, calls, counters, lock>>

\* what one attempt can come to:
\*   "fetch_error"  index[idx] / mmaps[shard] raises before the remote call
\*   "call_error"   post_one raises (transport, timeout, raise_for_status,
\*                  r.json(), a missing key in the response)
\*   "ok_text"      post_one returns a string caption
\*   "ok_nontext"   post_one returns and j[...]["content"] is not a string
Outcomes == {"fetch_error", "call_error", "ok_text", "ok_nontext"}

\* the captions the endpoint may answer with: sequences of characters, here
\* one with a leading space, an inner newline and a trailing newline
Captions == {<<" ", "a", "\n", "b", "\n">>}

\* text of the answer: one of the captions for "ok_text", nothing otherwise
AnswerTexts(o) == IF o = "ok_text" THEN Captions ELSE {<<>>}

\* what str(e) reports in the fail result: the exception of the fetch
\* (IndexError, ValueError) or the one of post_one
ErrorOf(o) ==
    IF o = "fetch_error" THEN "fetch" ELSE IF o = "call_error" THEN "call" ELSE "none"

\* an exception message of n characters
Message(n) == [k \in 1 .. n |-> "e"]

\* the messages an exception can carry
Messages == {Message(n) : n \in 1 .. MaxMessageLen}

\* str(e) where the engine is taken on its own: a short message
MessageOf(o) == IF ErrorOf(o) = "none" THEN <<>> ELSE Message(1)

\* WorkerFinish with a retry inside the worker: a failed call is repeated once
WorkerFinishRetry(i, o) ==
    /\ PoolAlive
    /\ i \in Submitted
    /\ futures[i].state = "InFlight"
    /\ IF o = "call_error" /\ calls[i] < 2
       THEN UNCHANGED futures
       ELSE \E c \in AnswerTexts(o) :
              futures' = [futures EXCEPT
                            ![i].state = IF o \in {"ok_text", "ok_nontext"} THEN "Succeeded" ELSE "Failed",
                            ![i].text = (o # "ok_nontext"),
                            ![i].error = ErrorOf(o),
                            ![i].message = MessageOf(o),
                            ![i].caption = c]
    /\ calls' = [calls EXCEPT ![i] = @ + (IF o = "fetch_error" THEN 0 ELSE 1)]
    /\ tlock = "free"
    /\ \E d \in Sampled(rtf_sample_rate) :
         tracker' = IF o \in {"ok_text", "ok_nontext"} /\ futures'[i].state = "Succeeded"
                    THEN TrackerUpdate(tracker, d) ELSE tracker
    /\ UNCHANGED <<tlock, wpc, stats, rtf_sample_rate>>
    /\ UNCHANGED <<store, tools, progress, unlogged, pc, runs, args, files, resume_state, indices,
                   store_open, yielded, cur, attempts, counters, lock>>

\* worker, lines 418-486: the attempt ends and the future holds its result
WorkerFinish(i, o) ==
    /\ PoolAlive
    /\ i \in Submitted
    /\ futures[i].state = "InFlight"
    /\ \E c \in AnswerTexts(o) :
         futures' = [futures EXCEPT
                       ![i].state = IF o \in {"ok_text", "ok_nontext"} THEN "Succeeded" ELSE "Failed",
                       ![i].text = (o # "ok_nontext"),
                       ![i].error = ErrorOf(o),
                       ![i].message = MessageOf(o),
                       ![i].caption = c]
    /\ calls' = [calls EXCEPT ![i] = @ + (IF o = "fetch_error" THEN 0 ELSE 1)]
    /\ tlock = "free"
    /\ \E d \in Sampled(rtf_sample_rate) :
         tracker' = IF o \in {"ok_text", "ok_nontext"}
                    THEN TrackerUpdate(tracker, d) ELSE tracker
    /\ UNCHANGED <<tlock, wpc, stats, rtf_sample_rate>>
    /\ UNCHANGED <<store, tools, progress, unlogged, pc, runs, args, files, resume_state, indices,
                   store_open, yielded, cur, attempts, counters, lock>>

\* str.replace(chr(10), ' ')
RECURSIVE ReplaceNewlines(_)
ReplaceNewlines(t) ==
    IF t = <<>> THEN <<>>
    ELSE <<IF Head(t) = "\n" THEN " " ELSE Head(t)>> \o ReplaceNewlines(Tail(t))

Whitespace == {" ", "\n"}

\* str.strip(): white space is removed from both ends
RECURSIVE LStrip(_)
LStrip(t) ==
    IF t # <<>> /\ Head(t) \in Whitespace THEN LStrip(Tail(t)) ELSE t

RECURSIVE RStrip(_)
RStrip(t) ==
    IF t # <<>> /\ t[Len(t)] \in Whitespace THEN RStrip(SubSeq(t, 1, Len(t) - 1)) ELSE t

Strip(t) == RStrip(LStrip(t))

\* the line f"{res['idx']}\t{res['caption'].replace(chr(10),' ').strip()}\n"
TsvLine(i, caption) == [idx |-> i, text |-> Strip(ReplaceNewlines(caption))]

\* CheckpointDue that waits for more than the interval
CheckpointDueLate(processed, last, interval) == processed - last > interval

\* main, line 526: the test of the periodic checkpoint report
CheckpointDue(processed, last, interval) == processed - last >= interval

\* main, lines 513 and 526-548: processed = ok + fail, and the checkpoint
\* summary is printed when it is due
Checkpoint ==
    LET processed == ok + fail
    IN IF CheckpointDue(processed, last_checkpoint, checkpoint_interval)
       THEN /\ last_checkpoint' = processed
            /\ checkpoints' = Append(checkpoints, processed)
       ELSE UNCHANGED <<last_checkpoint, checkpoints>>

\* for fut in as_completed(futures): res = fut.result(); with lock:
DrainTake(i) ==
    /\ pc = "drain"
    /\ i \in Submitted \ yielded
    /\ futures[i].state \in Terminal
    /\ lock = "free"
    /\ lock' = "main"
    /\ yielded' = yielded \cup {i}
    /\ cur' = {i}
    /\ pc' = "locked"
    /\ UNCHANGED <<store, tools, progress, tracking, unlogged, runs, args, files, resume_state, indices, store_open,
                   futures, calls, attempts, counters>>

\* main, lines 499-503.  res['caption'].replace raises when the caption is
\* not a string: the with blocks are left (lock released, files closed) and
\* the exception goes on to the finally clause.
DrainCount ==
    /\ pc = "locked"
    /\ \E i \in cur :
         IF futures[i].state = "Succeeded"
         THEN /\ ok' = ok + 1
              /\ fail' = fail
              /\ IF futures[i].text
                 THEN /\ tbuf' = Append(tbuf, TsvLine(i, futures[i].caption))
                      /\ pc' = "counted"
                      /\ UNCHANGED <<ledger, tsvfile, jbuf, lock, cur>>
                 ELSE /\ ledger' = FlushedLedger
                      /\ tsvfile' = FlushedTsv
                      /\ jbuf' = <<>>
                      /\ tbuf' = <<>>
                      /\ lock' = "free"
                      /\ cur' = {}
                      /\ pc' = "unwind"
         ELSE /\ fail' = fail + 1
              /\ ok' = ok
              /\ pc' = "counted"
              /\ UNCHANGED <<files, lock, cur>>
    /\ UNCHANGED <<store, tools, progress, tracking, unlogged, runs, args, resume_state, indices, store_open,
                   futures, yielded, calls, attempts, write_counter>>

\* the line json.dumps(res) of the result of future i
ResultLine(i) ==
    EntryLine(i, IF futures[i].state = "Succeeded" THEN "ok" ELSE "fail",
              futures[i].retry_attempt, futures[i].error, futures[i].message,
              futures[i].caption)

\* DrainWrite that keeps the retry table up to date: a fail result is
\* recorded in retry_counts as it is written
DrainWriteRecount ==
    /\ pc = "counted"
    /\ write_counter' = write_counter + 1
    /\ \E i \in cur :
         /\ IF write_counter' % FlushEvery = 0
            THEN /\ ledger' = ledger \o Append(jbuf, ResultLine(i))
                 /\ jbuf' = <<>>
                 /\ tsvfile' = FlushedTsv
                 /\ tbuf' = <<>>
            ELSE /\ jbuf' = Append(jbuf, ResultLine(i))
                 /\ UNCHANGED <<ledger, tsvfile, tbuf>>
         /\ retry_counts' = IF futures[i].state = "Failed"
                            THEN Put(retry_counts, i, futures[i].retry_attempt)
                            ELSE retry_counts
    /\ Checkpoint
    /\ lock' = "free"
    /\ cur' = {}
    /\ pc' = "drain"
    /\ UNCHANGED <<store, tools, checkpoint_interval, warnings, tracking, unlogged, runs, args, scan_pos, done,
                   indices, store_open, futures, yielded, calls, attempts, ok, fail>>

\* DrainWrite that flushes the ledger alone on every 10th write
DrainWriteLedgerFlushOnly ==
    /\ pc = "counted"
    /\ write_counter' = write_counter + 1
    /\ \E i \in cur :
         IF write_counter' % FlushEvery = 0
         THEN /\ ledger' = ledger \o Append(jbuf, ResultLine(i))
              /\ jbuf' = <<>>
              /\ UNCHANGED <<tsvfile, tbuf>>
         ELSE /\ jbuf' = Append(jbuf, ResultLine(i))
              /\ UNCHANGED <<ledger, tsvfile, tbuf>>
    /\ Checkpoint
    /\ lock' = "free"
    /\ cur' = {}
    /\ pc' = "drain"
    /\ UNCHANGED <<store, tools, checkpoint_interval, warnings, tracking, unlogged, runs, args, resume_state,
                   indices, store_open, futures, yielded, calls, attempts, ok, fail>>

\* main, lines 505-548: append the line, flush both files every 10th write,
\* report progress; the lock is released at the end of the with block
DrainWrite ==
    /\ pc = "counted"
    /\ write_counter' = write_counter + 1
    /\ \E i \in cur :
         IF write_counter' % FlushEvery = 0
         THEN /\ ledger' = ledger \o Append(jbuf, ResultLine(i))
              /\ jbuf' = <<>>
              /\ tsvfile' = FlushedTsv
              /\ tbuf' = <<>>
         ELSE /\ jbuf' = Append(jbuf, ResultLine(i))
              /\ UNCHANGED <<ledger, tsvfile, tbuf>>
    /\ Checkpoint
    /\ lock' = "free"
    /\ cur' = {}
    /\ pc' = "drain"
    /\ UNCHANGED <<store, tools, checkpoint_interval, warnings, tracking, unlogged, runs, args, resume_state,
                   indices, store_open, futures, yielded, calls, attempts, ok, fail>>

\* as_completed is exhausted: the with block closes both files and shuts the
\* pool down, the finally clause closes the mmaps, the final report follows
Finish ==
    /\ pc = "drain"
    /\ yielded = Submitted
    /\ ledger' = FlushedLedger
    /\ tsvfile' = FlushedTsv
    /\ jbuf' = <<>>
    /\ tbuf' = <<>>
    /\ store_open' = FALSE
    /\ open_maps' = open_maps \ SeqRange(mmaps)
    /\ open_fds' = open_fds \ SeqRange(fds)
    /\ pc' = "done"
    /\ UNCHANGED <<tools, progress, tracking, runs, args, resume_state, indices, pool, counters,
                   lock, unlogged, shards, rows, index, mmaps, fds, views, caller>>

\* Interrupt with a handler that writes a fail entry for what is in flight
InterruptLogsInFlight ==
    /\ pc \in {"drain", "locked", "counted"}
    /\ \E order \in [1 .. Cardinality(InFlight) -> InFlight] :
         /\ \A m, n \in DOMAIN order : m # n => order[m] # order[n]
         /\ ledger' = FlushedLedger \o
                [n \in DOMAIN order |->
                    EntryLine(order[n], "fail", futures[order[n]].retry_attempt, "call",
                              Message(1), <<>>)]
    /\ tsvfile' = FlushedTsv
    /\ jbuf' = <<>>
    /\ tbuf' = <<>>
    /\ lock' = "free"
    /\ cur' = {}
    /\ pc' = "unwind"
    /\ UNCHANGED <<store, tools, progress, tracking, unlogged, runs, args, resume_state, indices, store_open,
                   futures, yielded, calls, attempts, counters>>

\* KeyboardInterrupt in the main thread inside the with block: the lock is
\* released, both files are closed, the pool is then waited for
Interrupt ==
    /\ pc \in {"drain", "locked", "counted"}
    /\ ledger' = FlushedLedger
    /\ tsvfile' = FlushedTsv
    /\ jbuf' = <<>>
    /\ tbuf' = <<>>
    /\ lock' = "free"
    /\ cur' = {}
    /\ pc' = "unwind"
    /\ UNCHANGED <<store, tools, progress, tracking, unlogged, runs, args, resume_state, indices, store_open,
                   futures, yielded, calls, attempts, counters>>

\* Unwind that does not wait for the pool: close_mmaps() runs at once
UnwindNoWait ==
    /\ pc = "unwind"
    /\ store_open' = FALSE
    /\ open_maps' = open_maps \ SeqRange(mmaps)
    /\ open_fds' = open_fds \ SeqRange(fds)
    /\ unlogged' = Unlogged(ledger)
    /\ pc' = "crashed"
    /\ UNCHANGED <<tools, progress, tracking, runs, args, files, resume_state, indices, pool,
                   counters, lock, shards, rows, index, mmaps, fds, views, caller>>

\* ThreadPoolExecutor.__exit__ returns once every submitted item has run;
\* then finally: close_mmaps() and the exception leaves main
Unwind ==
    /\ pc = "unwind"
    /\ \A i \in Submitted : futures[i].state \in Terminal
    /\ store_open' = FALSE
    /\ open_maps' = open_maps \ SeqRange(mmaps)
    /\ open_fds' = open_fds \ SeqRange(fds)
    /\ unlogged' = Unlogged(ledger)
    /\ pc' = "crashed"
    /\ UNCHANGED <<tools, progress, tracking, runs, args, files, resume_state, indices, pool,
                   counters, lock, shards, rows, index, mmaps, fds, views, caller>>

\* the process is killed: its memory is gone, and what is buffered is lost
\* except for a prefix the file object may already have written out
Kill ==
    /\ pc \in {"ready", "opened", "drain", "locked", "counted", "unwind"}
    /\ \E n \in 0 .. Len(jbuf) : ledger' = ledger \o SubSeq(jbuf, 1, n)
    /\ \E n \in 0 .. Len(tbuf) : tsvfile' = tsvfile \o SubSeq(tbuf, 1, n)
    /\ jbuf' = <<>>
    /\ tbuf' = <<>>
    /\ store_open' = FALSE
    /\ scan_pos' = 0 /\ done' = {} /\ retry_counts' = EmptyMap
    /\ indices' = <<>>
    /\ futures' = EmptyMap /\ calls' = EmptyMap
    /\ yielded' = {} /\ cur' = {}
    /\ ok' = 0 /\ fail' = 0 /\ write_counter' = 0
    /\ lock' = "free"
    /\ unlogged' = Unlogged(ledger')
    /\ mmaps' = <<>> /\ fds' = <<>>
    /\ open_fds' = {} /\ open_maps' = {}
    /\ views' = EmptyMap
    /\ tracker' = NewTracker /\ tlock' = "free"
    /\ wpc' = EmptyMap /\ stats' = NoStats
    /\ last_checkpoint' = 0 /\ checkpoints' = <<>>
    /\ pc' = "killed"
    /\ UNCHANGED <<warnings, runs, args, attempts, shards, rows, index, caller,
                   rtf_sample_rate, checkpoint_interval, tools>>

\* what the worker pool and the drain loop do
Engine ==
    \/ \E s \in BOOLEAN : OpenStore(s)
    \/ SubmitAll
    \/ \E i \in Ids : WorkerStart(i)
    \/ \E i \in Ids, o \in Outcomes : WorkerFinish(i, o)
    \/ \E i \in Ids : DrainTake(i)
    \/ DrainCount
    \/ DrainWrite
    \/ Finish
    \/ Unwind

StartUp == ReplayStep \/ ReplayEnd \/ Filter

Next ==
    \/ BeginRun
    \/ StartUp
    \/ Engine
    \/ Interrupt
    \/ Kill

Init ==
    /\ InitCommon
    /\ NoStore
    /\ Defaults
    /\ runs = 0
    /\ run_limit = MaxRuns
    /\ resume \in BOOLEAN
    /\ ledger = <<>>
    /\ start_idx \in {0, 1}
    /\ end_idx = NoEnd
    /\ max_retries \in {1, 2}
    /\ max_workers \in {1, 2}

Spec == Init /\ [][Next]_vars

\* one invocation on an arbitrary ledger
InitReplay ==
    /\ InitCommon
    /\ NoStore
    /\ Defaults
    /\ runs = 0
    /\ run_limit = 1
    /\ resume = TRUE
    /\ ledger \in Ledgers
    /\ start_idx \in {-1, 0, 1}
    /\ end_idx \in {1, 2, NoEnd}
    /\ max_retries \in {1, 2}
    /\ max_workers = 2

\* analyze_jsonl, lines 89-99: one iteration of "for line in f".  A line that
\* is not JSON is passed over (except json.JSONDecodeError: pass); an ok
\* entry adds the key to successful_utts and discards it from failed_utts,
\* an entry of any other status adds it to failed_utts and nothing else
AnalyzeLine(st, ln) ==
    IF ~ln.parses
    THEN st
    ELSE [scanned |-> TRUE,
          total_lines |-> st.total_lines + 1,
          unique_utts |-> st.unique_utts \cup {ln.idx},
          successful_utts |-> IF ln.status = "ok"
                              THEN st.successful_utts \cup {ln.idx}
                              ELSE st.successful_utts,
          failed_utts |-> IF ln.status = "ok"
                          THEN st.failed_utts \ {ln.idx}
                          ELSE st.failed_utts \cup {ln.idx}]

RECURSIVE AnalyzeFrom(_, _, _)
AnalyzeFrom(st, lines, n) ==
    IF n > Len(lines) THEN st
    ELSE AnalyzeFrom(AnalyzeLine(st, lines[n]), lines, n + 1)

\* analyze_jsonl: the stats of the ledger as it is on disk
analyze_jsonl(lines) == AnalyzeFrom([NoScan EXCEPT !.scanned = TRUE], lines, 1)

\* monitor_progress.py, one round of its loop: the ledger file is scanned
\* while the client may be running
Monitor ==
    /\ monitor' = analyze_jsonl(ledger)
    /\ UNCHANGED <<client, limiter, now, polls, answer, merging>>

\* the start-up of one resumed invocation, up to the submission of the work list
NextReplay == BeginRun \/ StartUp \/ (\E s \in BOOLEAN : OpenStore(s)) \/ SubmitAll

SpecReplay == InitReplay /\ [][NextReplay]_vars

\* the same start-up with the progress monitor reading the ledger
NextMonitor == NextReplay \/ Monitor

SpecMonitor == InitReplay /\ [][NextMonitor]_vars

\* consecutive resumed invocations that nothing interrupts from outside
NextClean == BeginRun \/ StartUp \/ Engine

InitClean ==
    /\ InitCommon
    /\ NoStore
    /\ Defaults
    /\ runs = 0
    /\ run_limit = MaxCleanRuns
    /\ resume = TRUE
    /\ ledger = <<>>
    /\ start_idx = 0
    /\ end_idx = NoEnd
    /\ max_retries \in {1, 2}
    /\ max_workers = 2

SpecClean == InitClean /\ [][NextClean]_vars

\* the entries an earlier invocation may have left in the ledger
PriorLineSet ==
    {EntryLine(i, "ok", 1, "none", <<>>, c) : i \in Ids, c \in Captions}
    \cup {EntryLine(i, "fail", a, "call", Message(1), <<>>) :
             i \in Ids, a \in 1 .. MaxAttemptField}

PriorLedgers == UNION {[1 .. n -> PriorLineSet] : n \in 0 .. MaxPriorLines}

\* resumed invocations, interrupted or killed at any point, on a ledger that
\* earlier invocations have written to
InitCut ==
    /\ InitCommon
    /\ NoStore
    /\ Defaults
    /\ runs = 0
    /\ run_limit = MaxRuns
    /\ resume = TRUE
    /\ ledger \in PriorLedgers
    /\ start_idx = 0
    /\ end_idx = NoEnd
    /\ max_retries \in {2, 3}
    /\ max_workers = 2

SpecCut == InitCut /\ [][Next]_vars

\* ------------------------------------- the worker, the tracker and its lock
\* One invocation of main() in which the worker and the drain loop are taken
\* a step at a time where they use the tracker: the worker's call of
\* tracker.update (line 463) and the drain loop's call of tracker.get_stats
\* (line 516) each wait for tracker.lock, and self.processed += 1 is a read
\* followed by a write.

\* worker, lines 418-446 and 478-486: the fetch or post_one raises an
\* exception with message m, and the result holds str(e)
WorkerRaise(i, o, m) ==
    /\ PoolAlive
    /\ i \in Submitted
    /\ futures[i].state = "InFlight"
    /\ i \notin DOMAIN wpc
    /\ o \in {"fetch_error", "call_error"}
    /\ futures' = [futures EXCEPT ![i].state = "Failed",
                                  ![i].error = ErrorOf(o),
                                  ![i].message = m]
    /\ calls' = [calls EXCEPT ![i] = @ + (IF o = "fetch_error" THEN 0 ELSE 1)]
    /\ UNCHANGED <<store, tools, progress, tracking, unlogged, pc, runs, args, files,
                   resume_state, indices, store_open, yielded, cur, attempts,
                   counters, lock>>

\* worker, lines 438-461: post_one returns; d holds the audio_duration and
\* the sample_weight the worker goes on with
WorkerAnswer(i, o, d) ==
    /\ PoolAlive
    /\ i \in Submitted
    /\ futures[i].state = "InFlight"
    /\ i \notin DOMAIN wpc
    /\ o \in {"ok_text", "ok_nontext"}
    /\ d \in Sampled(rtf_sample_rate)
    /\ \E c \in AnswerTexts(o) :
         futures' = [futures EXCEPT ![i].text = (o # "ok_nontext"),
                                    ![i].caption = c]
    /\ calls' = [calls EXCEPT ![i] = @ + 1]
    /\ wpc' = Put(wpc, i, [at |-> "enter", d |-> d, seen |-> 0])
    /\ UNCHANGED <<store, tools, progress, unlogged, pc, runs, args, files, resume_state,
                   indices, store_open, yielded, cur, attempts, counters, lock,
                   tracker, tlock, stats, rtf_sample_rate>>

At(i, where) == i \in DOMAIN wpc /\ wpc[i].at = where

\* the name under which the pool thread of worker(i) holds a lock
Thread(i) == ToString(i)

\* UpdateEnter that does not wait for the lock
UpdateEnterNoLock(i) ==
    /\ At(i, "enter")
    /\ tlock' = Thread(i)
    /\ wpc' = [wpc EXCEPT ![i].at = "read"]
    /\ UNCHANGED <<store, tools, progress, unlogged, engine_main, pool, tracker, stats,
                   rtf_sample_rate>>

\* update, line 267: with self.lock
UpdateEnter(i) ==
    /\ At(i, "enter")
    /\ tlock = "free"
    /\ tlock' = Thread(i)
    /\ wpc' = [wpc EXCEPT ![i].at = "read"]
    /\ UNCHANGED <<store, tools, progress, unlogged, engine_main, pool, tracker, stats,
                   rtf_sample_rate>>

\* update, line 268: self.processed is read
UpdateRead(i) ==
    /\ At(i, "read")
    /\ wpc' = [wpc EXCEPT ![i].at = "write", ![i].seen = tracker.processed]
    /\ UNCHANGED <<store, tools, progress, unlogged, engine_main, pool, tracker, tlock,
                   stats, rtf_sample_rate>>

\* update, line 268: the value read plus one is stored in self.processed
UpdateWrite(i) ==
    /\ At(i, "write")
    /\ tracker' = [tracker EXCEPT !.processed = wpc[i].seen + 1]
    /\ wpc' = [wpc EXCEPT ![i].at = "sample"]
    /\ UNCHANGED <<store, tools, progress, unlogged, engine_main, pool, tlock, stats,
                   rtf_sample_rate>>

\* update, lines 269-278, and the end of the with block: the lock is released
UpdateExit(i) ==
    /\ At(i, "sample")
    /\ tracker' = CountSample(tracker, wpc[i].d)
    /\ tlock' = "free"
    /\ wpc' = [wpc EXCEPT ![i].at = "return"]
    /\ UNCHANGED <<store, tools, progress, unlogged, engine_main, pool, stats,
                   rtf_sample_rate>>

\* worker, lines 465-477: the ok result is returned
WorkerReturn(i) ==
    /\ At(i, "return")
    /\ futures' = [futures EXCEPT ![i].state = "Succeeded"]
    /\ wpc' = Pop(wpc, i)
    /\ UNCHANGED <<store, tools, progress, unlogged, pc, runs, args, files, resume_state,
                   indices, store_open, yielded, cur, calls, attempts, counters,
                   lock, tracker, tlock, stats, rtf_sample_rate>>

\* main, lines 505-513: the line is appended, both files are flushed on
\* every 10th write
DrainLog ==
    /\ pc = "counted"
    /\ write_counter' = write_counter + 1
    /\ \E i \in cur :
         IF write_counter' % FlushEvery = 0
         THEN /\ ledger' = ledger \o Append(jbuf, ResultLine(i))
              /\ jbuf' = <<>>
              /\ tsvfile' = FlushedTsv
              /\ tbuf' = <<>>
         ELSE /\ jbuf' = Append(jbuf, ResultLine(i))
              /\ UNCHANGED <<ledger, tsvfile, tbuf>>
    /\ pc' = "stats"
    /\ UNCHANGED <<store, tools, progress, tracking, unlogged, runs, args, resume_state,
                   indices, store_open, pool, ok, fail, lock>>

\* get_stats, line 281: with self.lock, called with the log lock held
StatsEnter ==
    /\ pc = "stats"
    /\ tlock = "free"
    /\ tlock' = "main"
    /\ pc' = "snapshot"
    /\ UNCHANGED <<store, tools, progress, unlogged, runs, args, files, resume_state,
                   indices, store_open, pool, counters, lock, tracker, wpc,
                   stats, rtf_sample_rate>>

\* get_stats, lines 282-301: None when less than 0.1 s have elapsed, the
\* counters otherwise; the lock is released
StatsReturn ==
    /\ pc = "snapshot"
    /\ \E early \in BOOLEAN :
         stats' = IF early THEN NoStats ELSE Snapshot(tracker)
    /\ tlock' = "free"
    /\ pc' = "report"
    /\ UNCHANGED <<store, tools, progress, unlogged, runs, args, files, resume_state,
                   indices, store_open, pool, counters, lock, tracker, wpc,
                   rtf_sample_rate>>

\* main, lines 517-548: progress is printed and the log lock is released
Report ==
    /\ pc = "report"
    /\ stats' = NoStats
    /\ Checkpoint
    /\ lock' = "free"
    /\ cur' = {}
    /\ pc' = "drain"
    /\ UNCHANGED <<store, tools, checkpoint_interval, warnings, unlogged, runs, args, files, resume_state,
                   indices, store_open, futures, yielded, calls, attempts,
                   counters, tracker, tlock, wpc, rtf_sample_rate>>

\* the steps of the main thread
MainSteps ==
    \/ Filter
    \/ \E s \in BOOLEAN : OpenStore(s)
    \/ SubmitAll
    \/ \E i \in Ids : DrainTake(i)
    \/ DrainCount
    \/ DrainLog
    \/ StatsEnter
    \/ StatsReturn
    \/ Report
    \/ Finish
    \/ Unwind

\* the steps of the pool thread that runs worker(i)
WorkerSteps(i) ==
    \/ WorkerStart(i)
    \/ \E o \in Outcomes, m \in Messages : WorkerRaise(i, o, m)
    \/ \E o \in Outcomes, d \in Sampled(rtf_sample_rate) : WorkerAnswer(i, o, d)
    \/ UpdateEnter(i)
    \/ UpdateRead(i)
    \/ UpdateWrite(i)
    \/ UpdateExit(i)
    \/ WorkerReturn(i)

NextTracker ==
    \/ BeginRun
    \/ MainSteps
    \/ \E i \in Ids : WorkerSteps(i)

InitTracker ==
    /\ InitCommon
    /\ NoStore
    /\ NoTools
    /\ runs = 0
    /\ run_limit = 1
    /\ resume = FALSE
    /\ ledger = <<>>
    /\ start_idx = 0
    /\ end_idx = NoEnd
    /\ max_retries = 1
    /\ max_workers \in {1, 2}
    /\ rtf_sample_rate \in {0, PScale}
    /\ checkpoint_interval \in {1, 2}

SpecTracker == InitTracker /\ [][NextTracker]_vars

\* the same under fair scheduling: the main thread and every pool thread go
\* on while they can, and every remote call returns or raises
Fairness == WF_vars(MainSteps) /\ \A i \in Ids : WF_vars(WorkerSteps(i))

SpecLive == InitTracker /\ [][NextTracker]_vars /\ Fairness

\* ------------------------------------------------------- duration sampling
\* One invocation of main() as in SpecTracker, for the values of
\* --rtf-sample-rate: 0, a probability below 1e-8, 1e-8, 0.5 and 1.0
SampleRates == {0, 1, MinRate, PScale \div 2, PScale}

InitSampling ==
    /\ InitCommon
    /\ NoStore
    /\ NoTools
    /\ runs = 0
    /\ run_limit = 1
    /\ resume = FALSE
    /\ ledger = <<>>
    /\ start_idx = 0
    /\ end_idx = NoEnd
    /\ max_retries = 1
    /\ max_workers = 2
    /\ rtf_sample_rate \in SampleRates
    /\ checkpoint_interval = DefaultCheckpointInterval

SpecSampling == InitSampling /\ [][NextTracker]_vars

\* ------------------------------------------------------------ RateLimiter
\* The metrics endpoint answers a poll with a response: reachable (FALSE when
\* requests.get raises: no endpoint, timeout), status_code, and the lines of
\* r.text.  A line is [gauge, comment, parts]: it contains the gauge's name,
\* it starts with '#', and what line.split() gives; a part is a token that
\* float() accepts or not.
None == [none |-> TRUE, value |-> 0]

Some(n) == [none |-> FALSE, value |-> n]

Word == [numeric |-> FALSE, value |-> 0]

Num(n) == [numeric |-> TRUE, value |-> n]

MetricLines ==
    {[gauge |-> FALSE, comment |-> FALSE, parts |-> <<Word, Num(MaxQueue)>>],
     [gauge |-> TRUE, comment |-> TRUE, parts |-> <<Word, Word, Num(MaxQueue)>>],
     [gauge |-> TRUE, comment |-> FALSE, parts |-> <<Word>>],
     [gauge |-> TRUE, comment |-> FALSE, parts |-> <<Word, Word>>]}
    \cup {[gauge |-> TRUE, comment |-> FALSE, parts |-> <<Word, Num(n)>>] : n \in 0 .. MaxQueue}

Responses ==
    [reachable : BOOLEAN, status_code : {200, 503},
     lines : UNION {[1 .. n -> MetricLines] : n \in 0 .. MaxMetricLines}]

\* get_queue_size, lines 68-73: the first line that names the gauge, is not a
\* comment and has two parts decides; int(float(...)) raises on a token that
\* is not a number and the except clause returns None
RECURSIVE ScanMetrics(_)
ScanMetrics(lines) ==
    IF lines = <<>> THEN None
    ELSE LET line == Head(lines)
         IN IF line.gauge /\ ~line.comment /\ Len(line.parts) >= 2
            THEN IF line.parts[Len(line.parts)].numeric
                 THEN Some(line.parts[Len(line.parts)].value)
                 ELSE None
            ELSE ScanMetrics(Tail(lines))

\* get_queue_size
get_queue_size(resp) ==
    IF ~resp.reachable THEN None
    ELSE IF resp.status_code = 200 THEN ScanMetrics(resp.lines)
    ELSE None

\* should_throttle that polls however recent the last poll is
ShouldThrottleEveryCall(resp) ==
    /\ Len(polls) < MaxPolls
    /\ IF ~limiter.enabled
       THEN /\ answer' = [called |-> TRUE, polled |-> FALSE, queue_size |-> None,
                          result |-> FALSE]
            /\ UNCHANGED <<limiter, polls>>
       ELSE LET queue_size == get_queue_size(resp)
            IN /\ polls' = Append(polls, now)
               /\ limiter' = [limiter EXCEPT !.last_check = now,
                                             !.enabled = ~queue_size.none]
               /\ answer' = [called |-> TRUE, polled |-> TRUE,
                             queue_size |-> queue_size,
                             result |-> (~queue_size.none
                                         /\ queue_size.value >= limiter.max_queue_size)]
    /\ UNCHANGED <<client, now, merging, monitor>>

\* should_throttle that stays enabled when the signal cannot be obtained
ShouldThrottleKeepTrying(resp) ==
    /\ Len(polls) < MaxPolls
    /\ IF ~limiter.enabled \/ now - limiter.last_check < limiter.check_interval
       THEN /\ answer' = [called |-> TRUE, polled |-> FALSE, queue_size |-> None,
                          result |-> FALSE]
            /\ UNCHANGED <<limiter, polls>>
       ELSE LET queue_size == get_queue_size(resp)
            IN /\ polls' = Append(polls, now)
               /\ limiter' = [limiter EXCEPT !.last_check = now]
               /\ answer' = [called |-> TRUE, polled |-> TRUE,
                             queue_size |-> queue_size,
                             result |-> (~queue_size.none
                                         /\ queue_size.value >= limiter.max_queue_size)]
    /\ UNCHANGED <<client, now, merging, monitor>>

\* should_throttle that repeats its last answer between two polls
ShouldThrottleSticky(resp) ==
    /\ Len(polls) < MaxPolls
    /\ IF ~limiter.enabled \/ now - limiter.last_check < limiter.check_interval
       THEN /\ answer' = [called |-> TRUE, polled |-> FALSE, queue_size |-> None,
                          result |-> answer.result]
            /\ UNCHANGED <<limiter, polls>>
       ELSE LET queue_size == get_queue_size(resp)
            IN /\ polls' = Append(polls, now)
               /\ limiter' = [limiter EXCEPT !.last_check = now,
                                             !.enabled = ~queue_size.none]
               /\ answer' = [called |-> TRUE, polled |-> TRUE,
                             queue_size |-> queue_size,
                             result |-> (~queue_size.none
                                         /\ queue_size.value >= limiter.max_queue_size)]
    /\ UNCHANGED <<client, now, merging, monitor>>

\* RateLimiter.should_throttle, lines 201-217, with the response the endpoint
\* would give to a poll made now
ShouldThrottle(resp) ==
    /\ Len(polls) < MaxPolls
    /\ IF ~limiter.enabled \/ now - limiter.last_check < limiter.check_interval
       THEN /\ answer' = [called |-> TRUE, polled |-> FALSE, queue_size |-> None,
                          result |-> FALSE]
            /\ UNCHANGED <<limiter, polls>>
       ELSE LET queue_size == get_queue_size(resp)
            IN /\ polls' = Append(polls, now)
               /\ limiter' = [limiter EXCEPT !.last_check = now,
                                             !.enabled = ~queue_size.none]
               /\ answer' = [called |-> TRUE, polled |-> TRUE,
                             queue_size |-> queue_size,
                             result |-> (~queue_size.none
                                         /\ queue_size.value >= limiter.max_queue_size)]
    /\ UNCHANGED <<client, now, merging, monitor>>

\* time passes: time.time() does not go back
Tick ==
    /\ now < MaxClock
    /\ now' = now + 1
    /\ UNCHANGED <<client, limiter, polls, answer, merging, monitor>>

\* RateLimiter.__init__, lines 194-199, at some time of the clock
InitLimiter ==
    /\ InitCommon
    /\ NoStore
    /\ runs = 0 /\ run_limit = 0
    /\ resume = FALSE
    /\ ledger = <<>>
    /\ start_idx = 0 /\ end_idx = NoEnd
    /\ max_retries = 1 /\ max_workers = 1
    /\ rtf_sample_rate = 0
    /\ checkpoint_interval = DefaultCheckpointInterval
    /\ limiter \in [enabled : {TRUE}, last_check : {0},
                     max_queue_size : 0 .. MaxQueue, check_interval : 0 .. 2]
    /\ now \in 0 .. 1
    /\ polls = <<>>
    /\ answer = NoCall
    /\ all_records = <<>>
    /\ merged = EmptyMap
    /\ merge_stats = EmptyMap
    /\ output = <<>>
    /\ again = NoRerun
    /\ monitor = NoScan

NextLimiter == Tick \/ \E resp \in Responses : ShouldThrottle(resp)

SpecLimiter == InitLimiter /\ [][NextLimiter]_vars

\* ------------------------------------------------------------ merge_jsonl
\* A loaded record is [has_key, key, status, tag]: whether it has the key
\* field, the field's value (None for null), its status, and tag, which
\* stands for the rest of the record and tells two records of a key apart.
MergeKeyValues == {0, 1}

MergeRecords ==
    {[has_key |-> FALSE, key |-> None, status |-> st, tag |-> t] :
        st \in {"ok", "fail"}, t \in {1, 2}}
    \cup [has_key : {TRUE}, key : {None} \cup {Some(k) : k \in MergeKeyValues},
          status : {"ok", "fail"}, tag : {1, 2}]

\* record.get(key_field)
KeyOf(record) == IF record.has_key THEN record.key ELSE None

\* utt_records[k], lines 80-84: the records of key k in input order
Grouped(records, k) == SelectSeq(records, LAMBDA record : KeyOf(record) = Some(k))

\* the position of the first record with status ok, 0 when there is none
RECURSIVE FirstOk(_, _)
FirstOk(records, n) ==
    IF n > Len(records) THEN 0
    ELSE IF records[n].status = "ok" THEN n
    ELSE FirstOk(records, n + 1)

\* Chosen that takes the last record whatever prefer_success is
ChosenLast(records, prefer_success) == records[Len(records)]

\* merge_records, lines 99-111: the record kept among those of one key
Chosen(records, prefer_success) ==
    IF prefer_success /\ FirstOk(records, 1) # 0
    THEN records[FirstOk(records, 1)]
    ELSE records[Len(records)]

\* merge_records, lines 79-119
merge_records(records, prefer_success) ==
    LET keys == {k \in MergeKeyValues : Grouped(records, k) # <<>>}
        result == [k \in keys |-> Chosen(Grouped(records, k), prefer_success)]
        kept == {k \in keys : result[k].status = "ok"}
        grouped == Cardinality({n \in 1 .. Len(records) : ~KeyOf(records[n]).none})
    IN [merged |-> result,
        stats |-> [total_utts |-> Cardinality(keys),
                   successful |-> Cardinality(kept),
                   failed |-> Cardinality(keys \ kept),
                   duplicates_resolved |-> grouped - Cardinality(keys),
                   missing_key |-> Len(records) - grouped]]

\* the line json.dumps(record) + "\n"
JsonLine(record) == [blank |-> FALSE, parses |-> TRUE, obj |-> record]

\* load_jsonl_records: blank lines are passed over, a line that does not
\* parse is reported and left out
load_jsonl_records(lines) ==
    LET kept == SelectSeq(lines, LAMBDA ln : ~ln.blank /\ ln.parses)
    IN [n \in 1 .. Len(kept) |-> kept[n].obj]

\* SortedKeys in descending order
RECURSIVE SortedKeysDescending(_)
SortedKeysDescending(keys) ==
    IF keys = {} THEN <<>>
    ELSE LET k == CHOOSE x \in keys : \A y \in keys : y <= x
         IN <<k>> \o SortedKeysDescending(keys \ {k})

\* sorted(merged.keys())
RECURSIVE SortedKeys(_)
SortedKeys(keys) ==
    IF keys = {} THEN <<>>
    ELSE LET k == CHOOSE x \in keys : \A y \in keys : x <= y
         IN <<k>> \o SortedKeys(keys \ {k})

\* write_outputs, lines 122-130: the lines of the merged JSONL file
write_outputs(result) ==
    LET sorted_utts == SortedKeys(DOMAIN result)
    IN [n \in 1 .. Len(sorted_utts) |-> JsonLine(result[sorted_utts[n]])]

\* main, lines 160-173: the records are merged and the merged file is
\* written; --prefer-success is a store_true flag with default True
MergeMain ==
    /\ DOMAIN merge_stats = {}
    /\ LET out == merge_records(all_records, TRUE)
       IN /\ merged' = out.merged
          /\ merge_stats' = out.stats
          /\ output' = write_outputs(out.merged)
    /\ UNCHANGED <<client, limiter, now, polls, answer, all_records, again, monitor>>

\* main run once more with the merged file as its only input file and
\* another output path
MergeAgain ==
    /\ DOMAIN merge_stats # {}
    /\ ~again.ran
    /\ LET records == load_jsonl_records(output)
           out == merge_records(records, TRUE)
       IN again' = [ran |-> TRUE, all_records |-> records, merged |-> out.merged,
                    stats |-> out.stats, output |-> write_outputs(out.merged)]
    /\ UNCHANGED <<client, limiter, now, polls, answer, all_records, merged,
                   merge_stats, output, monitor>>

\* merge_jsonl.py on any records
InitMerge ==
    /\ InitCommon
    /\ NoStore
    /\ runs = 0 /\ run_limit = 0
    /\ resume = FALSE
    /\ ledger = <<>>
    /\ start_idx = 0 /\ end_idx = NoEnd
    /\ max_retries = 1 /\ max_workers = 1
    /\ rtf_sample_rate = 0
    /\ checkpoint_interval = DefaultCheckpointInterval
    /\ limiter = [enabled |-> FALSE, last_check |-> 0, max_queue_size |-> 0,
                  check_interval |-> 0]
    /\ now = 0
    /\ polls = <<>>
    /\ answer = NoCall
    /\ \E n \in 0 .. MaxMergeRecords : all_records \in [1 .. n -> MergeRecords]
    /\ merged = EmptyMap
    /\ merge_stats = EmptyMap
    /\ output = <<>>
    /\ again = NoRerun
    /\ monitor = NoScan

NextMerge == MergeMain \/ MergeAgain

SpecMerge == InitMerge /\ [][NextMerge]_vars

\* ------------------------------------------------ the shard store, the index
\* A shard file is [readable, size]: os.open fails on a file that cannot be
\* read, mmap.mmap(fd, 0) raises ValueError on an empty one.  Shards are
\* numbered from 0 in the order of sorted(glob(...)), as bin_index counts
\* them.  The byte at offset q of shard k is written <<k, q>>, so that no
\* two bytes of the store are equal.
ShardSet == [readable : BOOLEAN, size : 0 .. MaxShardSize]

ShardLists == UNION {[1 .. n -> ShardSet] : n \in 0 .. MaxShards}

ShardBytes(k) == [q \in 1 .. shards[k + 1].size |-> <<k, q - 1>>]

\* the rows of the metadata table (the required columns)
RowSet ==
    [bin_index : 0 .. (MaxShards - 1),
     start_byte_offset : 0 .. (MaxShardSize - 1),
     file_size_bytes : 1 .. MaxShardSize]

Tables == [1 .. NumRecords -> RowSet]

\* KeyLE comparing the shard number only
KeyLEShardOnly(a, b) == a.bin_index <= b.bin_index

\* the order of the sort key (int(r["bin_index"]), int(r["start_byte_offset"]))
KeyLE(a, b) ==
    \/ a.bin_index < b.bin_index
    \/ a.bin_index = b.bin_index /\ a.start_byte_offset <= b.start_byte_offset

\* list.sort is stable: a row goes behind the rows whose key is not greater
RECURSIVE InsertRow(_, _)
InsertRow(sorted, r) ==
    IF sorted = <<>> THEN <<r>>
    ELSE IF KeyLE(Head(sorted), r) THEN <<Head(sorted)>> \o InsertRow(Tail(sorted), r)
    ELSE <<r>> \o sorted

\* rows.sort(key=...) of the first n rows of table t
RECURSIVE SortRows(_, _)
SortRows(t, n) == IF n = 0 THEN <<>> ELSE InsertRow(SortRows(t, n - 1), t[n])

\* index[i] of row r
IndexRecord(r) ==
    [bin_index |-> r.bin_index, start |-> r.start_byte_offset, size |-> r.file_size_bytes]

\* build_index: element n of the result is the record of id n - 1
build_index(t) == [n \in 1 .. Len(t) |-> IndexRecord(SortRows(t, Len(t))[n])]

engine == <<pc, runs, args, files, resume_state, indices, store_open, pool,
            counters, lock, unlogged, tracking, progress, tools>>

\* main line 339, ArkiveReader's caller: the index is built before anything else
BuildIndex ==
    /\ pc = "idle"
    /\ index = <<>>
    /\ index' = build_index(rows)
    /\ UNCHANGED <<engine, shards, rows, mmaps, fds, open_fds, open_maps, views, caller>>

\* main() with the index built
MainStore ==
    /\ caller = "main"
    /\ index # <<>>
    /\ BeginRun

\* where an exception of open_mmaps leaves its caller
OpenFailed == IF caller = "main" THEN "fatal" ELSE "reader_partial"

\* open_mmaps, lines 51-55, called by main (line 399) or by
\* ArkiveReader.__init__ (line 85)
OpenMmapsBegin ==
    /\ \/ caller = "main" /\ pc = "ready"
       \/ caller = "reader" /\ pc = "idle" /\ index # <<>>
    /\ mmaps' = <<>>
    /\ fds' = <<>>
    /\ pc' = IF shards = <<>> THEN OpenFailed ELSE "opening"
    /\ UNCHANGED <<tools, progress, tracking, runs, args, files, resume_state, indices, store_open, pool,
                   counters, lock, unlogged, shards, rows, index, open_fds,
                   open_maps, views, caller>>

\* OpenMmapsShard that leaves out a shard it cannot open or map
OpenMmapsShardSkip ==
    /\ pc = "opening"
    /\ Len(fds) < Len(shards)
    /\ LET k == Len(fds)
           sh == shards[k + 1]
       IN IF sh.readable /\ sh.size > 0
          THEN /\ open_fds' = open_fds \cup {k}
               /\ fds' = Append(fds, k)
               /\ open_maps' = open_maps \cup {k}
               /\ mmaps' = Append(mmaps, k)
          ELSE /\ fds' = Append(fds, k)
               /\ UNCHANGED <<open_fds, open_maps, mmaps>>
    /\ UNCHANGED <<engine, shards, rows, index, views, caller>>

\* open_mmaps, lines 56-59: one iteration of the loop.  An exception ends the
\* function: its lists are lost to the caller, the descriptors that os.open
\* returned stay open, the mmap objects are closed when they are finalised.
OpenMmapsShard ==
    /\ pc = "opening"
    /\ Len(fds) < Len(shards)
    /\ LET k == Len(fds)
           sh == shards[k + 1]
       IN IF ~sh.readable
          THEN /\ pc' = OpenFailed
               /\ mmaps' = <<>>
               /\ fds' = <<>>
               /\ \E finalised \in BOOLEAN :
                     open_maps' = IF finalised THEN {} ELSE open_maps
               /\ UNCHANGED open_fds
          ELSE IF sh.size = 0
          THEN /\ pc' = OpenFailed
               /\ open_fds' = open_fds \cup {k}
               /\ mmaps' = <<>>
               /\ fds' = <<>>
               /\ \E finalised \in BOOLEAN :
                     open_maps' = IF finalised THEN {} ELSE open_maps
          ELSE /\ open_fds' = open_fds \cup {k}
               /\ fds' = Append(fds, k)
               /\ open_maps' = open_maps \cup {k}
               /\ mmaps' = Append(mmaps, k)
               /\ pc' = pc
    /\ UNCHANGED <<tools, progress, tracking, runs, args, files, resume_state, indices, store_open, pool,
                   counters, lock, unlogged, shards, rows, index, views, caller>>

\* open_mmaps, line 60: the lists go to the caller
OpenMmapsReturn ==
    /\ pc = "opening"
    /\ Len(fds) = Len(shards)
    /\ store_open' = TRUE
    /\ pc' = IF caller = "main" THEN "opened" ELSE "reader_ready"
    /\ UNCHANGED <<tools, progress, tracking, runs, args, files, resume_state, indices, pool, counters,
                   lock, unlogged, store>>

Max(a, b) == IF a > b THEN a ELSE b

\* a slice bound of Python on a sequence of length n
SliceBound(x, n) == IF x < 0 THEN Max(x + n, 0) ELSE Min(x, n)

\* b[lo:hi]
PySlice(b, lo, hi) == SubSeq(b, SliceBound(lo, Len(b)) + 1, SliceBound(hi, Len(b)))

\* Fetch with the size passed as the end of the slice
FetchStopIsSize(rec) ==
    LET n == Len(mmaps)
    IN IF rec.bin_index >= n \/ rec.bin_index < -n
       THEN [err |-> TRUE, bytes |-> <<>>]
       ELSE LET k == mmaps[(IF rec.bin_index < 0 THEN rec.bin_index + n ELSE rec.bin_index) + 1]
            IN IF k \notin open_maps
               THEN [err |-> TRUE, bytes |-> <<>>]
               ELSE [err |-> FALSE, bytes |-> PySlice(ShardBytes(k), rec.start, rec.size)]

\* memoryview(mmaps[shard])[off:off+size] (worker, lines 420-426) and
\* self.mmaps[shard][off:off+size] (ArkiveReader.load, lines 92-96):
\* IndexError for a shard number outside the list, ValueError on a closed map
Fetch(rec) ==
    LET n == Len(mmaps)
    IN IF rec.bin_index >= n \/ rec.bin_index < -n
       THEN [err |-> TRUE, bytes |-> <<>>]
       ELSE LET k == mmaps[(IF rec.bin_index < 0 THEN rec.bin_index + n ELSE rec.bin_index) + 1]
            IN IF k \notin open_maps
               THEN [err |-> TRUE, bytes |-> <<>>]
               ELSE [err |-> FALSE,
                     bytes |-> PySlice(ShardBytes(k), rec.start, rec.start + rec.size)]

\* worker, lines 420-426: the bytes of the item are fetched
WorkerFetch(i) ==
    /\ PoolAlive
    /\ i \in Submitted
    /\ futures[i].state = "InFlight"
    /\ i \notin DOMAIN views
    /\ views' = Put(views, i, Fetch(index[i + 1]))
    /\ UNCHANGED <<engine, shards, rows, index, mmaps, fds, open_fds, open_maps, caller>>

\* the outcomes of an attempt whose answer, if any, is a text
StoreOutcomes == {"fetch_error", "call_error", "ok_text"}

\* worker, lines 418-486, after the fetch: an exception of the fetch is the
\* attempt's failure, fetched bytes go to the endpoint whatever they are
WorkerFinishStore(i, o) ==
    /\ i \in DOMAIN views
    /\ views[i].err <=> (o = "fetch_error")
    /\ WorkerFinish(i, o)

\* ArkiveReader.load, lines 92-96
ReaderLoad(i) ==
    /\ pc = "reader_ready"
    /\ i \notin DOMAIN views
    /\ views' = Put(views, i, Fetch(index[i + 1]))
    /\ UNCHANGED <<engine, shards, rows, index, mmaps, fds, open_fds, open_maps, caller>>

\* ArkiveReader.close, lines 105-117: getattr(self, 'mmaps', []) is empty when
\* __init__ did not get to assign the lists
ReaderClose ==
    /\ pc \in {"reader_partial", "reader_ready"}
    /\ open_maps' = open_maps \ SeqRange(mmaps)
    /\ open_fds' = open_fds \ SeqRange(fds)
    /\ pc' = "reader_closed"
    /\ UNCHANGED <<tools, progress, tracking, runs, args, files, resume_state, indices, store_open, pool,
                   counters, lock, unlogged, shards, rows, index, mmaps, fds,
                   views, caller>>

\* one invocation of main, or one ArkiveReader, on any shard files and any
\* metadata table
InitStore ==
    /\ InitCommon
    /\ Defaults
    /\ runs = 0
    /\ run_limit = 1
    /\ resume = FALSE
    /\ ledger = <<>>
    /\ start_idx = 0
    /\ end_idx = NoEnd
    /\ max_retries = 1
    /\ max_workers = 2
    /\ shards \in ShardLists
    /\ rows \in Tables
    /\ index = <<>>
    /\ caller \in {"main", "reader"}

NextStore ==
    \/ BuildIndex
    \/ MainStore
    \/ Filter
    \/ OpenMmapsBegin
    \/ OpenMmapsShard
    \/ OpenMmapsReturn
    \/ SubmitAll
    \/ \E i \in Ids : WorkerStart(i)
    \/ \E i \in Ids : WorkerFetch(i)
    \/ \E i \in Ids, o \in StoreOutcomes : WorkerFinishStore(i, o)
    \/ \E i \in Ids : DrainTake(i)
    \/ DrainCount
    \/ DrainWrite
    \/ Finish
    \/ \E i \in Ids : ReaderLoad(i)
    \/ ReaderClose

SpecStore == InitStore /\ [][NextStore]_vars

\* the same with the ways the drain loop is left by an exception: a caption
\* that is not a string, and KeyboardInterrupt in the main thread
NextLifetime ==
    \/ NextStore
    \/ \E i \in Ids : WorkerFinishStore(i, "ok_nontext")
    \/ Interrupt
    \/ Unwind

SpecLifetime == InitStore /\ [][NextLifetime]_vars

\* ------------------------------------------------ the drain loop, longer runs
\* One invocation of main() without --resume on a store of more records than
\* FlushEvery, so that the 10th write and several checkpoint intervals are
\* passed.  The state begins where the start-up has built the work list (line
\* 375).  The pool has one thread, which picks the next item up once
\* as_completed has yielded the results there are; the main thread may be
\* interrupted anywhere in the loop.
LoopItems == 0 .. (MaxItems - 1)

\* every result there is has been yielded by as_completed
TakenAll == \A i \in Submitted : futures[i].state \in Terminal => i \in yielded

\* the attempts end with a caption, with an answer that is not a string or
\* with an exception of the remote call
LoopOutcomes == {"ok_text", "ok_nontext", "call_error"}

InitLoop ==
    /\ pc = "ready"
    /\ runs = 1 /\ run_limit = 1
    /\ resume = FALSE
    /\ ledger = <<>> /\ ledger0 = <<>>
    /\ tsvfile = <<>> /\ jbuf = <<>> /\ tbuf = <<>>
    /\ start_idx = 0
    /\ end_idx \in (MaxItems - 2) .. MaxItems
    /\ max_retries = 1 /\ max_workers = 1
    /\ scan_pos = 0 /\ done = {} /\ retry_counts = EmptyMap
    /\ indices = [n \in 1 .. end_idx |-> n - 1]
    /\ store_open = FALSE
    /\ futures = EmptyMap /\ yielded = {} /\ cur = {}
    /\ ok = 0 /\ fail = 0 /\ write_counter = 0
    /\ lock = "free"
    /\ calls = EmptyMap
    /\ attempts = [i \in LoopItems |-> 0]
    /\ unlogged = EmptyMap
    /\ mmaps = <<>> /\ fds = <<>>
    /\ open_fds = {} /\ open_maps = {}
    /\ views = EmptyMap
    /\ tracker = NewTracker /\ tlock = "free"
    /\ wpc = EmptyMap /\ stats = NoStats
    /\ last_checkpoint = 0 /\ checkpoints = <<>>
    /\ warnings = <<>>
    /\ NoStore
    /\ NoTools
    /\ rtf_sample_rate = 0
    /\ checkpoint_interval \in 1 .. MaxInterval

NextLoop ==
    \/ \E s \in BOOLEAN : OpenStore(s)
    \/ SubmitAll
    \/ \E i \in LoopItems : TakenAll /\ WorkerStart(i)
    \/ \E i \in LoopItems, o \in LoopOutcomes : WorkerFinish(i, o)
    \/ \E i \in LoopItems : DrainTake(i)
    \/ DrainCount
    \/ DrainWrite
    \/ Finish
    \/ Interrupt
    \/ Unwind

SpecLoop == InitLoop /\ [][NextLoop]_vars

\* ------------------------------------------------------- claims: vocabulary
\* the ledger holds an ok entry for id x
HasOk(lines, x) ==
    \E n \in 1 .. Len(lines) :
        lines[n].parses /\ lines[n].status = "ok" /\ lines[n].idx = x

IsFail(ln, y) == ln.parses /\ ln.status = "fail" /\ ln.idx = y

\* positions of the fail entries for id y
FailPositions(lines, y) == {n \in 1 .. Len(lines) : IsFail(lines[n], y)}

FailCount(lines, y) == Cardinality(FailPositions(lines, y))

\* ids a ledger line or the range can name
AllIds == Ids \cup LedgerIds \cup {-1}

\* the work list of the current invocation has been computed
Filtered == pc \in {"ready", "nothing", "opened", "fatal", "drain"}

\* the replay loop of the current invocation has returned
Replayed == resume /\ pc \in {"filter", "ready", "nothing", "opened", "fatal", "drain"}

InRange(x) == start_idx <= x /\ x < Min(end_idx, NumRecords)

\* ----------------------------------------------------------------------- C1
\* C1: whenever the ledger holds an ok entry for id X, the work list computed
\* after replaying it does not contain X, whatever fail entries for X stand
\* before or after the ok entry, for every range and every max_retries.
C1_IdempotentResume ==
    (Filtered /\ resume) =>
        \A x \in AllIds : HasOk(ledger, x) => x \notin SeqRange(indices)

\* a filtered run whose range contains X, with fail entries for X before and
\* after its ok entry
C1_Witness ==
    /\ Filtered /\ resume
    /\ \E x \in AllIds :
         /\ InRange(x)
         /\ Len(ledger) = 3
         /\ IsFail(ledger[1], x)
         /\ ledger[2].parses /\ ledger[2].status = "ok" /\ ledger[2].idx = x
         /\ IsFail(ledger[3], x)
         /\ x \notin SeqRange(indices)

\* ----------------------------------------------------------------------- C2
\* C2 as stated: with max_retries = k, at least k fail entries for Y and no ok
\* entry for Y, Y is not in the work list, whatever the retry_attempt fields.
C2_RetryBoundAnyField ==
    (Filtered /\ resume) =>
        \A y \in AllIds :
            (FailCount(ledger, y) >= max_retries /\ ~HasOk(ledger, y))
                => y \notin SeqRange(indices)

\* every fail entry for y lacks retry_attempt or carries at least its ordinal
\* number among the fail entries for y
FieldsAtLeastOrdinal(lines, y) ==
    \A n \in FailPositions(lines, y) :
        lines[n].has_ra =>
            lines[n].retry_attempt >= Cardinality({m \in FailPositions(lines, y) : m <= n})

\* C2 amended: with max_retries = k, at least k fail entries for Y and no ok
\* entry for Y, Y is not in the work list, provided every fail entry for Y
\* lacks retry_attempt or carries at least its ordinal number among Y's fail
\* entries (as the entries of resumed runs do).
C2_RetryBoundOrdinal ==
    (Filtered /\ resume) =>
        \A y \in AllIds :
            (/\ FailCount(ledger, y) >= max_retries
             /\ ~HasOk(ledger, y)
             /\ FieldsAtLeastOrdinal(ledger, y))
                => y \notin SeqRange(indices)

\* max_retries = 2, two fail entries for Y in range, the second without the
\* field, and Y left out of the work list
C2_Witness ==
    /\ Filtered /\ resume
    /\ max_retries = 2
    /\ \E y \in AllIds :
         /\ InRange(y)
         /\ FailCount(ledger, y) = 2
         /\ ~HasOk(ledger, y)
         /\ FieldsAtLeastOrdinal(ledger, y)
         /\ \E n \in FailPositions(ledger, y) : ~ledger[n].has_ra
         /\ y \notin SeqRange(indices)

\* ----------------------------------------------------------------------- C7
\* the ids of [start, min(end, total)) that are not done and whose retry count
\* (0 when absent) is below max_retries
Residual ==
    {i \in start_idx .. (Min(end_idx, NumRecords) - 1) :
        i \notin done /\ (IF i \in DOMAIN retry_counts THEN retry_counts[i] ELSE 0) < max_retries}

\* C7: in a resumed run the work list holds exactly the ids of the clamped
\* range that are not in done and whose retry count is below max_retries, each
\* once, and these are the ids submitted to the pool.
C7_ResidualWorkSet ==
    /\ (Filtered /\ resume) =>
          /\ SeqRange(indices) = Residual
          /\ \A m, n \in 1 .. Len(indices) : m < n => indices[m] < indices[n]
    /\ (pc = "drain" /\ resume) => DOMAIN futures = Residual

\* a run that submitted some ids of its range and left out a done one and an
\* exhausted one
C7_Witness ==
    /\ pc = "drain" /\ resume
    /\ DOMAIN futures # {}
    /\ \E x \in done : InRange(x)
    /\ \E y \in DOMAIN retry_counts : InRange(y) /\ retry_counts[y] >= max_retries
    /\ end_idx > NumRecords

\* ----------------------------------------------------------------------- C8
\* what the replay rule says of one line
RuleFor(ln, dn, rc, dn2, rc2) ==
    IF ln.status = "ok"
    THEN /\ dn2 = dn \cup {ln.idx}
         /\ DOMAIN rc2 = (DOMAIN rc) \ {ln.idx}
         /\ \A i \in DOMAIN rc2 : rc2[i] = rc[i]
    ELSE IF ln.status = "fail"
    THEN /\ dn2 = dn
         /\ DOMAIN rc2 = (DOMAIN rc) \cup {ln.idx}
         /\ rc2[ln.idx] = (IF ln.has_ra THEN ln.retry_attempt
                           ELSE (IF ln.idx \in DOMAIN rc THEN rc[ln.idx] ELSE 0) + 1)
         /\ \A i \in (DOMAIN rc) \ {ln.idx} : rc2[i] = rc[i]
    ELSE dn2 = dn /\ rc2 = rc

\* C8: the replay consumes the lines oldest first; an ok entry adds its id to
\* done and removes it from retry_count, a fail entry sets retry_count[id] to
\* its retry_attempt field or to the previous count + 1 when the field is
\* absent, an entry with another status changes nothing.
C8_ReplayRule ==
    [][(pc = "replay" /\ scan_pos' # scan_pos) =>
          /\ scan_pos' = scan_pos + 1
          /\ ledger[scan_pos'].parses =>
                RuleFor(ledger[scan_pos'], done, retry_counts, done', retry_counts')]_vars

\* the replay has consumed a fail entry with the field, a fail entry without
\* it for the same id, and the count is the field + 1
C8_Witness ==
    /\ pc = "replay"
    /\ scan_pos = 2
    /\ \E y \in AllIds :
         /\ IsFail(ledger[1], y) /\ ledger[1].has_ra /\ ledger[1].retry_attempt = 2
         /\ IsFail(ledger[2], y) /\ ~ledger[2].has_ra
         /\ y \in DOMAIN retry_counts
         /\ retry_counts[y] = 3

\* ----------------------------------------------------------------------- C9
Parseable(ln) == ln.parses

OkPositions(lines, x) ==
    {n \in 1 .. Len(lines) : lines[n].parses /\ lines[n].status = "ok" /\ lines[n].idx = x}

\* the lines the current invocation has written so far, flushed or not
RunLines == SubSeq(ledger \o jbuf, Len(ledger0) + 1, Len(ledger) + Len(jbuf))

\* number of complete lines for id i
LinesFor(lines, i) ==
    Cardinality({n \in 1 .. Len(lines) : lines[n].parses /\ lines[n].idx = i})

\* ----------------------------------------------------------------------- C3
\* C3: over resumed runs on the same ledger and range, interrupted or killed
\* at any point or not, the ledger never holds two ok entries for one id, and
\* no id submitted to the pool had an ok entry in the ledger the run started
\* from.
C3_ExactlyOnce ==
    resume =>
        /\ \A i \in Ids : Cardinality(OkPositions(ledger \o jbuf, i)) <= 1
        /\ \A i \in Submitted : ~HasOk(ledger0, i)

\* a second resumed run that leaves out an id with a durable ok entry and
\* attempts again, with the same attempt number, an id whose first attempt
\* left no entry because the first run was cut short
C3_Witness ==
    /\ resume
    /\ runs = 2
    /\ pc = "drain"
    /\ \E i \in Ids : InRange(i) /\ HasOk(ledger0, i) /\ i \notin Submitted
    /\ \E j \in Submitted :
         /\ attempts[j] = 2
         /\ futures[j].retry_attempt = 1
         /\ futures[j].state = "Succeeded"

\* ----------------------------------------------------------------------- C4
\* C4: every append to the ledger happens with the log lock held by the one
\* thread that writes, and when the run has ended the ledger holds exactly one
\* complete line for every submitted attempt.
C4_LedgerOneLinePerAttempt ==
    /\ (pc \in {"locked", "counted"}) => (lock = "main" /\ Cardinality(cur) = 1)
    /\ (pc \in {"done", "crashed"}) =>
          /\ \A i \in Submitted : LinesFor(RunLines, i) = 1
          /\ \A n \in 1 .. Len(RunLines) : RunLines[n].parses

\* ----------------------------------------------------------------------- C5
\* the steps of an item: Pending -> InFlight -> Succeeded or Failed
ItemStep(a, b) ==
    \/ a = "Pending" /\ b = "InFlight"
    \/ a = "InFlight" /\ b \in {"Succeeded", "Failed"}

\* C5: an item only moves Pending -> InFlight -> Succeeded or Failed, and
\* when a run has completed, every id of the work list is Succeeded or Failed,
\* the endpoint was called at most once for it, the run appended exactly
\* one ledger entry for it and none for any other id.
C5_ItemStateMachine ==
    /\ [](pc = "done" =>
            /\ Submitted = SeqRange(indices)
            /\ \A i \in Submitted :
                 /\ futures[i].state \in {"Succeeded", "Failed"}
                 /\ calls[i] <= 1
                 /\ LinesFor(RunLines, i) = 1
            /\ \A n \in 1 .. Len(RunLines) : RunLines[n].idx \in Submitted)
    /\ [][\A i \in (DOMAIN futures) \cap (DOMAIN futures') :
             futures'[i].state # futures[i].state
                => ItemStep(futures[i].state, futures'[i].state)]_vars

\* a completed run of two items, one succeeded and one failed
C5_Witness ==
    /\ pc = "done"
    /\ Cardinality(Submitted) = 2
    /\ \E i, j \in Submitted :
         /\ futures[i].state = "Succeeded" /\ calls[i] = 1
         /\ futures[j].state = "Failed"
         /\ LinesFor(RunLines, i) = 1 /\ LinesFor(RunLines, j) = 1

\* ----------------------------------------------------------------------- C6
\* C6: whatever a single item's attempt comes to, nothing leaves the drain
\* loop as an exception, a malformed outcome is recorded as a fail entry, and
\* every submitted item gets its ledger entry.
C6_PerItemFailureAbsorbed ==
    /\ pc \notin {"unwind", "crashed"}
    /\ pc = "done" =>
          \A i \in Submitted :
              /\ LinesFor(RunLines, i) = 1
              /\ ~futures[i].text =>
                    \E n \in 1 .. Len(RunLines) : IsFail(RunLines[n], i)

\* ---------------------------------------------------------------------- C10
\* the fail entries for id i, oldest first
FailLines(i) == SelectSeq(ledger, LAMBDA ln : IsFail(ln, i))

\* every attempt made so far has its entry in the ledger: no run was cut short
EveryAttemptLogged == \A i \in Ids : attempts[i] = LinesFor(ledger, i)

\* C10: over completed resumed runs with max_retries = k, an id that never
\* succeeded has fail entries carrying retry_attempt 1, 2, ... in that order,
\* at most k of them, was attempted at most k times, is not in the work list
\* once it has k of them, and a run whose work list is empty stops at
\* "Nothing to process" (and only such a run does).
C10_RetriesAcrossRuns ==
    (resume /\ EveryAttemptLogged /\ pc \in {"done", "nothing", "ready"}) =>
        /\ \A i \in Ids :
             ~HasOk(ledger, i) =>
                /\ \A j \in 1 .. Len(FailLines(i)) : FailLines(i)[j].retry_attempt = j
                /\ Len(FailLines(i)) <= max_retries
                /\ attempts[i] <= max_retries
                /\ (Len(FailLines(i)) >= max_retries /\ pc \in {"nothing", "ready"})
                      => i \notin SeqRange(indices)
        /\ (pc = "nothing") = (pc \in {"nothing", "ready"} /\ indices = <<>>)

\* the third run with max_retries = 2 finds nothing to process: an id has the
\* fail entries 1 and 2
C10_Witness ==
    /\ resume /\ EveryAttemptLogged
    /\ pc = "nothing"
    /\ runs = 3
    /\ max_retries = 2
    /\ \E i \in Ids :
         /\ ~HasOk(ledger, i)
         /\ Len(FailLines(i)) = 2
         /\ FailLines(i)[1].retry_attempt = 1
         /\ FailLines(i)[2].retry_attempt = 2
         /\ attempts[i] = 2

\* ---------------------------------------------------------------------- C11
\* the lines an invocation has added to the on-disk ledger, given that ledger
AddedFor(lines, i) ==
    {n \in (Len(ledger0) + 1) .. Len(lines) : lines[n].idx = i}

\* the step that cuts an invocation short: KeyboardInterrupt or an exception
\* in the drain loop, or the death of the process
CutShort == pc \notin {"unwind", "killed"} /\ pc' \in {"unwind", "killed"}

\* C11: when a run is cut short, an item that is pending or in flight at that
\* point has no ledger entry from the run, and nothing is added afterwards; the
\* next resumed run has every item the cut run left without a durable entry in
\* its work list, with the attempt number the item had in the cut run.
C11_InterruptionRecovery ==
    /\ []((resume /\ Filtered) =>
            \A i \in DOMAIN unlogged :
                /\ i \in SeqRange(indices)
                /\ Get(retry_counts, i, 0) + 1 = unlogged[i])
    /\ [][CutShort =>
             \A i \in SeqRange(indices) :
                 (i \notin Submitted \/ futures[i].state \in {"Pending", "InFlight"})
                     => AddedFor(ledger', i) = {}]_vars
    /\ [][(pc \in {"unwind", "crashed", "killed"} /\ pc' \in {"unwind", "crashed", "killed"})
             => (ledger' = ledger)]_vars

\* the second run has dispatched, as attempt 3 again, an item whose attempt 3
\* was in the run that was cut short, next to an item whose entry that run
\* did make durable
C11_Witness ==
    /\ resume
    /\ runs = 2
    /\ pc = "drain"
    /\ \E i \in DOMAIN unlogged :
         /\ unlogged[i] = 3
         /\ i \in Submitted
         /\ futures[i].retry_attempt = 3
         /\ attempts[i] = 2
    /\ \E j \in Ids : j \notin DOMAIN unlogged /\ attempts[j] = 1 /\ AddedFor(ledger0, j) = {}
                        /\ \E n \in 1 .. Len(ledger0) : ledger0[n].idx = j

\* ---------------------------------------------------------------------- C12
\* the ResumeState main builds at line 352 from the ledger as the run found it
StartState == IF resume THEN load_done_and_retry_info(ledger0) ELSE EmptyResume

\* the run is past line 352 and its process is alive
Running == pc \in {"filter", "ready", "opened", "drain", "locked", "counted", "unwind"}

\* C12: every entry a run writes carries retry_attempt = (retry_count of its
\* id in the ResumeState built at run start, 0 when absent) + 1, and from the
\* end of the replay on no step of a worker or of the drain loop changes done
\* or retry_counts, which stay what the replay of the start ledger gave.
C12_FrozenResumeState ==
    /\ [](/\ \A n \in 1 .. Len(RunLines) :
                RunLines[n].retry_attempt
                    = Get(StartState.retry_counts, RunLines[n].idx, 0) + 1
          /\ Running => (done = StartState.done /\ retry_counts = StartState.retry_counts))
    /\ [][(Running /\ pc' # "killed")
             => (done' = done /\ retry_counts' = retry_counts)]_vars

\* a resumed run that found a fail entry for an id has written the id's next
\* entry, numbered 2, and its retry table still holds 1 for the id
C12_Witness ==
    /\ resume
    /\ runs = 2
    /\ pc = "drain"
    /\ \E n \in 1 .. Len(RunLines) :
         /\ RunLines[n].retry_attempt = 2
         /\ RunLines[n].status = "fail"
         /\ FailCount(ledger0, RunLines[n].idx) = 1
         /\ retry_counts[RunLines[n].idx] = 1

\* ---------------------------------------------------------------------- C13
IsPrefix(a, b) == Len(a) <= Len(b) /\ SubSeq(b, 1, Len(a)) = a

\* C13: in every run, resumed or not, the lines the ledger held at run start
\* stay an unchanged prefix of the on-disk ledger, and every step leaves the
\* lines already on disk where they are and only adds lines after them.
C13_AppendOnly ==
    /\ [](IsPrefix(ledger0, ledger))
    /\ [][IsPrefix(ledger, ledger')]_vars

\* a run without --resume that found two lines has appended after them
C13_Witness ==
    /\ ~resume
    /\ runs = 2
    /\ Len(ledger0) = 2
    /\ Len(ledger) > Len(ledger0)
    /\ pc \in {"done", "crashed", "killed"}

\* --------------------------------------------------- claims about the store
\* the record names an opened shard and a byte range inside it (the
\* ShardRecord invariant byte_offset + byte_size <= size of the shard)
ValidRecord(rec) ==
    /\ rec.bin_index \in 0 .. (Len(shards) - 1)
    /\ rec.start >= 0
    /\ rec.size >= 0
    /\ rec.start + rec.size <= shards[rec.bin_index + 1].size

\* ---------------------------------------------------------------------- C14
\* C14: for every record of the index that satisfies the ShardRecord
\* invariant, the fetch from the opened store (by a worker or by
\* ArkiveReader.load) raises nothing and returns exactly byte_size bytes, the
\* p-th of which is the byte at offset byte_offset + p - 1 of the shard whose
\* number is the record's shard index.
C14_ZeroCopyRoundTrip ==
    \A i \in DOMAIN views :
        LET rec == index[i + 1]
        IN ValidRecord(rec) =>
              /\ ~views[i].err
              /\ Len(views[i].bytes) = rec.size
              /\ \A p \in 1 .. rec.size :
                    views[i].bytes[p] = <<rec.bin_index, rec.start + p - 1>>

\* a worker and a reader have each fetched the last byte of the second shard
C14_Witness ==
    /\ Len(shards) = 2
    /\ \E i \in DOMAIN views :
         /\ index[i + 1] = [bin_index |-> 1, start |-> 1, size |-> 1]
         /\ ValidRecord(index[i + 1])
         /\ views[i] = [err |-> FALSE, bytes |-> << <<1, 1>> >>]
    /\ \E j \in DOMAIN views :
         /\ index[j + 1].size = 2
         /\ ValidRecord(index[j + 1])
         /\ Len(views[j].bytes) = 2

\* ---------------------------------------------------------------------- C15
\* the orders in which the rows of a table can be given
Perms(t) ==
    {p \in [1 .. Len(t) -> 1 .. Len(t)] : \A m, n \in 1 .. Len(t) : m # n => p[m] # p[n]}

Permuted(t, p) == [n \in 1 .. Len(t) |-> t[p[n]]]

\* ids 0..N-1 are given to a permutation of the rows, ascending by
\* (shard_index, byte_offset)
SortedPermutation ==
    /\ Len(index) = Len(rows)
    /\ \E p \in Perms(rows) : index = [n \in 1 .. Len(rows) |-> IndexRecord(rows[p[n]])]
    /\ \A n \in 1 .. (Len(index) - 1) :
          \/ index[n].bin_index < index[n + 1].bin_index
          \/ /\ index[n].bin_index = index[n + 1].bin_index
             /\ index[n].start <= index[n + 1].start

\* C15 as stated: build gives ids 0..N-1 to a permutation of the rows sorted
\* ascending by (shard_index, byte_offset), and building from the same rows
\* in any row order yields the same id -> record mapping.
C15_IndexDeterminismAnyOrder ==
    index # <<>> =>
        /\ SortedPermutation
        /\ \A p \in Perms(rows) : build_index(Permuted(rows, p)) = index

\* rows that share (shard_index, byte_offset) are equal in every column
NoTies(t) ==
    \A m, n \in 1 .. Len(t) :
        (t[m].bin_index = t[n].bin_index /\ t[m].start_byte_offset = t[n].start_byte_offset)
            => t[m] = t[n]

\* C15 amended: build gives ids 0..N-1 to a permutation of the rows sorted
\* ascending by (shard_index, byte_offset); building again from the rows in
\* the same order yields the same mapping, and so does building from them in
\* any order when no two rows that share (shard_index, byte_offset) differ in
\* another column.
C15_IndexDeterminismNoTies ==
    index # <<>> =>
        /\ SortedPermutation
        /\ build_index(rows) = index
        /\ NoTies(rows) => \A p \in Perms(rows) : build_index(Permuted(rows, p)) = index

\* an index built from rows given in descending key order
C15_Witness ==
    /\ index # <<>>
    /\ NoTies(rows)
    /\ rows[1].bin_index = rows[2].bin_index
    /\ rows[1].start_byte_offset > rows[2].start_byte_offset
    /\ index[1] = IndexRecord(rows[2])
    /\ index[2] = IndexRecord(rows[1])

\* ---------------------------------------------------------------------- C16
Mappable(sh) == sh.readable /\ sh.size > 0

\* C16: when the shard set is empty or holds a shard that cannot be opened or
\* mapped, open_mmaps never returns to main, and when it has failed no worker
\* has been dispatched, no bytes fetched, no remote call made and no line
\* written to the ledger or the TSV.
C16_StoreOpenFatalBeforeWork ==
    /\ (caller = "main" /\ (shards = <<>> \/ \E k \in 1 .. Len(shards) : ~Mappable(shards[k])))
          => (pc \notin {"opened", "drain", "locked", "counted", "unwind", "done", "crashed"}
              /\ ~store_open)
    /\ pc = "fatal" =>
          /\ Submitted = {}
          /\ \A i \in Ids : attempts[i] = 0
          /\ calls = EmptyMap
          /\ views = EmptyMap
          /\ ledger = ledger0 /\ jbuf = <<>>
          /\ tsvfile = <<>> /\ tbuf = <<>>

\* main has a work list of two items and open_mmaps failed on the second of
\* two shards
C16_Witness ==
    /\ pc = "fatal"
    /\ Len(indices) = 2
    /\ Len(shards) = 2
    /\ Mappable(shards[1])
    /\ ~Mappable(shards[2])

\* ---------------------------------------------------------------------- C17
\* C17: once opening the store has failed, no descriptor and no mapping
\* acquired before the failure is still open, before and after close.
C17_ReleaseAfterPartialOpen ==
    (pc \in {"fatal", "reader_partial"} \/ (pc = "reader_closed" /\ ~store_open))
        => (open_fds = {} /\ open_maps = {})

\* ---------------------------------------------------------------------- C18
\* C18: the ledger entry of an item whose record is out of range (shard
\* number outside the opened shards, or byte range beyond the shard's end)
\* is never an ok entry and does not report the error of a failed call.
C18_OutOfRangeDistinct ==
    \A n \in 1 .. Len(RunLines) :
        ~ValidRecord(index[RunLines[n].idx + 1])
            => (RunLines[n].status # "ok" /\ RunLines[n].error = "fetch")

\* ---------------------------------------------------------------------- C19
\* the lines of the TSV file for id i
TsvLinesFor(i) == {n \in 1 .. Len(tsvfile) : tsvfile[n].idx = i}

\* C19: between runs, whatever runs came before (resumed or not, completed,
\* interrupted or killed), the TSV file holds exactly one line for each id
\* that has an ok entry in the ledger and none for any other id, and the text
\* of the line is the caption of an ok entry of the id with its newlines
\* replaced by spaces and trimmed.
C19_TsvProjection ==
    pc \in Stopped =>
        \A i \in Ids :
            /\ Cardinality(TsvLinesFor(i)) = (IF HasOk(ledger, i) THEN 1 ELSE 0)
            /\ \A n \in TsvLinesFor(i) :
                  \E m \in OkPositions(ledger, i) :
                      tsvfile[n].text = Strip(ReplaceNewlines(ledger[m].caption))

\* ---------------------------------------------------------------------- C20
\* C20: every entry a run appends has status ok or fail, carries
\* retry_attempt and processing_time, has caption and usage exactly when its
\* status is ok and error exactly when its status is fail.
C20_LedgerEntryShape ==
    \A n \in 1 .. Len(RunLines) :
        LET ln == RunLines[n]
        IN /\ ln.status \in {"ok", "fail"}
           /\ {"status", "retry_attempt", "processing_time"} \subseteq ln.keys
           /\ ("caption" \in ln.keys) <=> (ln.status = "ok")
           /\ ("usage" \in ln.keys) <=> (ln.status = "ok")
           /\ ("error" \in ln.keys) <=> (ln.status = "fail")

\* a completed run has appended an ok entry, a fail entry of a failed fetch
\* and (in an earlier run) a fail entry of a failed call
C20_Witness ==
    /\ pc = "done"
    /\ \E m, n \in 1 .. Len(RunLines) :
         /\ RunLines[m].status = "ok" /\ "usage" \in RunLines[m].keys
         /\ RunLines[n].status = "fail" /\ RunLines[n].error = "fetch"
         /\ "error" \in RunLines[n].keys
    /\ \E k \in 1 .. Len(ledger0) : ledger0[k].status = "fail" /\ ledger0[k].error = "call"

\* ---------------------------------------------------------------------- C21
\* a bound on the length of a logged error; whatever bound is fixed, an
\* exception message can be longer: here the longest has one character more
ErrorLimit == MaxMessageLen - 1

\* C21: the error string of every fail entry written to the ledger has length
\* at most a fixed bound, whatever the length of the exception's message.
C21_ErrorTruncation ==
    \A n \in 1 .. Len(RunLines) :
        RunLines[n].status = "fail" => Len(RunLines[n].message) <= ErrorLimit

\* ---------------------------------------------------------------------- C22
\* the attempts of the current invocation that have ended
Completed == {i \in Submitted : futures[i].state \in Terminal}

\* C22: the tracker is updated once per completed attempt, success or
\* failure: at every point of a run processed equals the number of attempts
\* that have reached Succeeded or Failed, and at the end of a completed run
\* it equals ok + fail.
C22_TrackerCountsAttempts ==
    /\ tracker.processed = Cardinality(Completed)
    /\ pc = "done" => tracker.processed = ok + fail

\* ---------------------------------------------------------------------- C23
\* C23: should_throttle returns true only in a call that polled the load
\* signal and obtained a queue depth of at least max_queue_size; every call
\* that does not poll, or whose poll yields no value or a smaller depth,
\* returns false.
C23_ThrottleOnlyOnDepth ==
    answer.called =>
        (answer.result <=>
            (/\ answer.polled
             /\ ~answer.queue_size.none
             /\ answer.queue_size.value >= limiter.max_queue_size))

\* a limiter that has polled before and been called in between polls again,
\* got the depth max_queue_size and returned true
C23_Witness ==
    /\ answer.called /\ answer.polled /\ answer.result
    /\ answer.queue_size = Some(limiter.max_queue_size)
    /\ limiter.max_queue_size > 0
    /\ Len(polls) = 2

\* ---------------------------------------------------------------------- C24
\* C24: after the first call in which the load signal cannot be obtained,
\* enabled is false for ever, every later should_throttle call returns false
\* and the signal is never polled again.
C24_DisabledForGood ==
    /\ []((answer.polled /\ answer.queue_size.none) => ~limiter.enabled)
    /\ [][~limiter.enabled =>
            (/\ ~limiter'.enabled
             /\ polls' = polls
             /\ (answer' # answer => (~answer'.result /\ ~answer'.polled)))]_vars

\* a disabled limiter was called again when check_interval had elapsed since
\* its last poll, and did not poll
C24_Witness ==
    /\ ~limiter.enabled
    /\ answer.called /\ ~answer.polled
    /\ now - limiter.last_check >= limiter.check_interval
    /\ limiter.check_interval > 0

\* ---------------------------------------------------------------------- C25
\* C25: under a non-decreasing clock, any two polls of the load signal made
\* by should_throttle are at least check_interval apart.
C25_PollsApart ==
    \A m, n \in 1 .. Len(polls) :
        m < n => polls[n] - polls[m] >= limiter.check_interval

\* two polls exactly check_interval = 2 apart, and a later call that came too
\* early to poll
C25_Witness ==
    /\ Len(polls) = 2
    /\ limiter.check_interval = 2
    /\ polls[2] - polls[1] = 2
    /\ now > polls[2]
    /\ limiter.enabled
    /\ answer.called /\ ~answer.polled

\* ---------------------------------------------------------------------- C26
\* merge_records has returned
Merged == DOMAIN merge_stats # {}

\* the positions of the input records whose key is k
KeyPositions(k) ==
    {n \in 1 .. Len(all_records) :
        all_records[n].has_key /\ all_records[n].key = Some(k)}

\* the input records without a key: the field is absent or null
Keyless ==
    {n \in 1 .. Len(all_records) :
        ~all_records[n].has_key \/ all_records[n].key = None}

\* C26: merge_records with prefer_success keeps, for every key that occurs in
\* the input, the first record with status ok in input order if one exists
\* and otherwise the last record for that key; the merged result has exactly
\* one record per key, and records without the key field are dropped and
\* counted as missing_key.
C26_MergePolicy ==
    Merged =>
        /\ DOMAIN merged = {k \in MergeKeyValues : KeyPositions(k) # {}}
        /\ \A k \in DOMAIN merged :
              LET oks == {n \in KeyPositions(k) : all_records[n].status = "ok"}
              IN \E n \in KeyPositions(k) :
                    /\ merged[k] = all_records[n]
                    /\ IF oks # {}
                       THEN n \in oks /\ \A m \in oks : n <= m
                       ELSE \A m \in KeyPositions(k) : m <= n
        /\ merge_stats.missing_key = Cardinality(Keyless)
        /\ merge_stats.total_utts = Cardinality(DOMAIN merged)

\* key 0 with a fail entry and then two different ok entries, the first of
\* which is kept, and one record without the key field
C26_Witness ==
    /\ Merged
    /\ Len(all_records) = 4
    /\ KeyPositions(0) = {1, 2, 3}
    /\ all_records[1].status = "fail"
    /\ all_records[2].status = "ok" /\ all_records[3].status = "ok"
    /\ all_records[2] # all_records[3]
    /\ merged[0] = all_records[2]
    /\ ~all_records[4].has_key
    /\ merge_stats.missing_key = 1

\* ---------------------------------------------------------------------- C27
\* every mapping and descriptor that open_mmaps gave to main is closed
Released ==
    /\ SeqRange(mmaps) \cap open_maps = {}
    /\ SeqRange(fds) \cap open_fds = {}

C28_BoundedParallelism ==
    /\ [](/\ (yielded # {} \/ cur # {}) => Submitted = SeqRange(indices)
          /\ Cardinality(InFlight) <= max_workers)
    /\ [][pc \notin Stopped => max_workers' = max_workers]_vars

\* one worker and two items: one is in flight and the other waits for it
C28_Witness ==
    /\ max_workers = 1
    /\ Submitted = Ids
    /\ Cardinality(InFlight) = 1
    /\ \E i \in Submitted : futures[i].state = "Pending"

\* ---------------------------------------------------------------------- C29
\* the run has drained every completion and finished, each id of the work
\* list in Succeeded or Failed
DrainedAll ==
    /\ pc = "done"
    /\ Submitted = SeqRange(indices)
    /\ yielded = Submitted
    /\ \A i \in Submitted : futures[i].state \in Terminal

\* a worker holds the tracker lock only, and goes on without the log lock;
\* the drain loop holds the tracker lock only inside the log lock
LockOrder ==
    /\ \A i \in Ids :
         tlock = Thread(i) => ENABLED (UpdateRead(i) \/ UpdateWrite(i) \/ UpdateExit(i))
    /\ tlock = "main" => (pc = "snapshot" /\ lock = "main")
    /\ lock = "main" => pc \in {"locked", "counted", "stats", "snapshot", "report"}

\* C29: provided every remote call eventually returns or times out, under
\* fair scheduling every run eventually drains all completions and finishes
\* with each residual id in Succeeded or Failed; the log lock and the tracker
\* lock are never held in a cycle.
C29_Termination ==
    /\ (pc = "drain") ~> DrainedAll
    /\ []LockOrder

\* ---------------------------------------------------------------------- C30
\* the workers whose call of tracker.update has returned
Updated == {i \in Submitted : futures[i].state = "Succeeded" \/ At(i, "return")}

\* the counters agree with k calls of update
Consistent(tr, k) ==
    /\ tr.processed = k
    /\ tr.samples_with_duration + tr.samples_without_duration = k

\* C30: when several workers call update concurrently, in every interleaving
\* no update is lost (processed equals the number of update calls, and
\* samples_with_duration + samples_without_duration equals processed), and a
\* get_stats call observes the counters of a state between two updates,
\* never a partial one.
C30_TrackerAtomic ==
    /\ tlock = "free" => Consistent(tracker, Cardinality(Updated))
    /\ ~stats.none => \E k \in 0 .. Cardinality(Updated) : Consistent(stats, k)

\* get_stats returned the counters after the first update, and the second
\* worker's update has been made since
C30_Witness ==
    /\ pc = "report"
    /\ ~stats.none
    /\ stats.processed = 1
    /\ tracker.processed = 2
    /\ tlock = "free"

\* ---------------------------------------------------------------------- C31
\* the positive multiples of c up to n, in increasing order
Multiples(c, n) == [k \in 1 .. (n \div c) |-> k * c]

\* C31: with a checkpoint interval c >= 1, the checkpoint summaries an
\* invocation has printed are at the processed counts c, 2c, 3c, ... in this
\* order, each once and none at another count; none is ahead of the count
\* ok + fail, and whenever the drain loop is between two completions or has
\* ended normally, every positive multiple of c up to ok + fail has its summary.
C31_CheckpointCadence ==
    checkpoint_interval >= 1 =>
        /\ \A k \in 1 .. Len(checkpoints) : checkpoints[k] = k * checkpoint_interval
        /\ Len(checkpoints) * checkpoint_interval <= ok + fail
        /\ last_checkpoint = Len(checkpoints) * checkpoint_interval
        /\ pc \in {"drain", "done"} =>
             checkpoints = Multiples(checkpoint_interval, ok + fail)

\* a run of 11 completions, some of them failures, has ended; with c = 3 the
\* summaries were printed at 3, 6 and 9 and the last two completions had none
C31_Witness ==
    /\ pc = "done"
    /\ checkpoint_interval = 3
    /\ ok + fail = 11
    /\ fail > 0
    /\ checkpoints = <<3, 6, 9>>

\* ---------------------------------------------------------------------- C32
\* the numbers of the unparseable lines among the first n lines, in order
RECURSIVE CorruptPositions(_, _)
CorruptPositions(lines, n) ==
    IF n = 0 THEN <<>>
    ELSE CorruptPositions(lines, n - 1)
         \o (IF Parseable(lines[n]) THEN <<>> ELSE <<n>>)

\* C32: while a resumed invocation replays its ledger and after it, the skip
\* warnings printed are one for each unparseable line read so far, in the
\* order of the lines, and the scan goes on to the end of the ledger.
C32_ReplayWarnsOnCorrupt ==
    (resume /\ runs >= 1 /\ pc \notin {"idle", "invalid"}) =>
        /\ warnings = CorruptPositions(ledger0, scan_pos)
        /\ Replayed => scan_pos = Len(ledger0)

\* ---------------------------------------------------------------------- C33
\* the step in which the update of worker i adds its sample to the tracker
\* bears out the weight for the rate p: a decoded duration d adds an amount
\* whose p-fold is d (the amount is d / p), and no duration adds nothing
WeightedStep(i) ==
    (At(i, "sample") /\ tracker' # tracker) =>
        LET added == tracker'.total_audio_seconds - tracker.total_audio_seconds
            d == wpc[i].d.audio_duration
        IN IF d > 0
           THEN added * rtf_sample_rate = d * PScale
           ELSE added = 0

\* C33 as stated, for every sampling probability p in (0, 1]: a sampled
\* duration d adds d * (1/p) to total_audio_seconds and an item that is not
\* sampled adds 0, so that p * (d/p) + (1 - p) * 0 is d; with p = 0 nothing is
\* ever added.
C33_SamplingWeightAnyRate ==
    /\ [](rtf_sample_rate = 0 => tracker.total_audio_seconds = 0)
    /\ [][rtf_sample_rate > 0 => \A i \in Ids : WeightedStep(i)]_vars

\* C33: the same for the sampling probabilities from 1e-8 to 1; below 1e-8 the
\* weight is 1e8 and not 1/p.
C33_SamplingWeight ==
    /\ [](rtf_sample_rate = 0 => tracker.total_audio_seconds = 0)
    /\ [][rtf_sample_rate >= MinRate => \A i \in Ids : WeightedStep(i)]_vars

\* with p = 0.5 one item was decoded (2 seconds, counted as 4) and the other
\* was not
C33_Witness ==
    /\ rtf_sample_rate = PScale \div 2
    /\ tracker.samples_with_duration = 1
    /\ tracker.samples_without_duration = 1
    /\ tracker.total_audio_seconds = 4
    /\ tlock = "free"

\* ---------------------------------------------------------------------- C34
\* a fail entry for id x comes after the last ok entry for it
FailAfterOk(lines, x) ==
    \E n \in FailPositions(lines, x) : \A m \in OkPositions(lines, x) : m < n

\* C34 as stated: after the replay of any ledger, done and the key set of
\* retry_counts are disjoint, whatever the order of the ok and fail entries.
C34_DoneRetryDisjoint ==
    Replayed => done \cap DOMAIN retry_counts = {}

\* C34: after the replay of any ledger, an id is in done exactly when the
\* ledger holds an ok entry for it, and an id of done has a retry count
\* exactly when a fail entry for it follows its last ok entry; the work list
\* holds no id of done, with a retry count or without.
C34_DonePrecedence ==
    Replayed =>
        /\ \A x \in AllIds : x \in done <=> HasOk(ledger0, x)
        /\ \A x \in done : x \in DOMAIN retry_counts <=> FailAfterOk(ledger0, x)
        /\ Filtered => SeqRange(indices) \cap done = {}

\* the ledger holds an ok entry for id 0 followed by a fail entry for it: id 0
\* is in done and has a retry count below max_retries, and the work list that
\* was built leaves it out
C34_Witness ==
    /\ Replayed /\ Filtered
    /\ Len(ledger0) = 2
    /\ ledger0[1].parses /\ ledger0[1].status = "ok" /\ ledger0[1].idx = 0
    /\ IsFail(ledger0[2], 0)
    /\ done = {0}
    /\ 0 \in DOMAIN retry_counts
    /\ retry_counts[0] < max_retries
    /\ start_idx = 0
    /\ 0 \notin SeqRange(indices)

\* ---------------------------------------------------------------------- C35
\* worker, line 420: rec = index[idx] on an array of n records.  A negative
\* idx down to -n counts from the end of the array; outside -n .. n-1 the
\* lookup raises IndexError.
IndexLookup(n, idx) ==
    IF 0 <= idx /\ idx < n THEN [raises |-> FALSE, row |-> idx]
    ELSE IF -n <= idx /\ idx < 0 THEN [raises |-> FALSE, row |-> n + idx]
    ELSE [raises |-> TRUE, row |-> 0]

\* C35: for every start_idx and end_idx given, negative ones and ones beyond
\* the record count included, every id of the work list and every id
\* submitted to the pool lies in 0 .. N-1, and the record the worker fetches
\* for it is the record the index holds under that id.
C35_DispatchedIdsValid ==
    \A i \in SeqRange(indices) \cup Submitted :
        /\ i \in Ids
        /\ IndexLookup(NumRecords, i) = [raises |-> FALSE, row |-> i]

\* ---------------------------------------------------------------------- C36
\* the ok entries among the lines
OkLines(lines) == {n \in 1 .. Len(lines) : lines[n].status = "ok"}

\* the drain loop has been left, normally or by an exception
LoopLeft == pc \in {"done", "unwind", "crashed"}

\* C36: in the index-based engine fewer than 10 ledger entries are ever
\* written and not yet flushed; a step that flushes the ledger leaves nothing
\* unflushed in the TSV and a step that flushes the TSV leaves nothing
\* unflushed in the ledger, so that between two completions the unflushed TSV
\* lines are those of the unflushed ok entries; and once the drain loop has
\* been left, normally or by an exception, nothing written is unflushed.
C36_BoundedLossWindow ==
    /\ [](Len(jbuf) < FlushEvery)
    /\ [](pc = "drain" => Len(tbuf) = Cardinality(OkLines(jbuf)))
    /\ [](LoopLeft => jbuf = <<>> /\ tbuf = <<>>)
    /\ [][/\ ledger' # ledger => tbuf' = <<>>
          /\ tsvfile' # tsvfile => jbuf' = <<>>]_vars

\* the 10th write has flushed ten entries, ok and fail ones, to the ledger and
\* their captions to the TSV, and the 11th entry and its caption are written
\* and not flushed
C36_Witness ==
    /\ pc = "drain"
    /\ write_counter = 11
    /\ Len(ledger) = 10
    /\ Len(tsvfile) \in 1 .. 9
    /\ Len(jbuf) = 1
    /\ Len(tbuf) = 1

\* ---------------------------------------------------------------------- C37
\* the invocation has returned because its range is empty (start >= end) or
\* because its work list is empty
ReturnedEarly == pc \in {"invalid", "nothing"}

\* C37: an invocation whose range or whose work list is empty has no effect:
\* no step of it, from its start to its return, changes the ledger or the
\* TSV or starts a worker, and when it has returned the store was not opened
\* (no mapping and no descriptor is held), nothing was submitted, no remote
\* call was made and nothing is waiting to be written.
C37_EmptyRunNoEffect ==
    /\ [](ReturnedEarly =>
            /\ ~store_open
            /\ open_maps = {} /\ open_fds = {}
            /\ Submitted = {}
            /\ calls = EmptyMap
            /\ ledger = ledger0
            /\ jbuf = <<>> /\ tbuf = <<>>)
    /\ [][pc' \in {"replay", "filter", "invalid", "nothing"} =>
             UNCHANGED <<ledger, tsvfile, jbuf, tbuf, attempts>>]_vars

\* a resumed invocation on a ledger with an ok entry for id 0 and a fail
\* entry that uses up the retries of id 1 has found nothing to do
C37_Witness ==
    /\ pc = "nothing"
    /\ start_idx = 0 /\ end_idx = NoEnd
    /\ done = {0}
    /\ 1 \in DOMAIN retry_counts
    /\ retry_counts[1] >= max_retries
    /\ Len(ledger) = 2
    /\ ledger = ledger0

\* ---------------------------------------------------------------------- C38
\* the key of the record on line n of the merged file
OutputKey(n) == output[n].obj.key.value

\* C38: the merged file holds the merged records, one line each, in strictly
\* ascending order of their keys; and merging the merged file again gives the
\* same record for every key, the same counts of successful and failed keys,
\* no duplicate to resolve and no record without key, and writes the same
\* file.
C38_MergeIdempotent ==
    /\ DOMAIN merge_stats # {} =>
         /\ Len(output) = Cardinality(DOMAIN merged)
         /\ \A n \in 1 .. Len(output) :
              /\ OutputKey(n) \in DOMAIN merged
              /\ output[n] = JsonLine(merged[OutputKey(n)])
         /\ \A m, n \in 1 .. Len(output) : m < n => OutputKey(m) < OutputKey(n)
    /\ again.ran =>
         /\ again.merged = merged
         /\ again.stats.total_utts = merge_stats.total_utts
         /\ again.stats.successful = merge_stats.successful
         /\ again.stats.failed = merge_stats.failed
         /\ again.stats.duplicates_resolved = 0
         /\ again.stats.missing_key = 0
         /\ again.output = output

\* the input named key 1 before key 0, held a duplicate and a record without
\* key; the merged file has key 0 (ok) before key 1 (fail) and was merged again
C38_Witness ==
    /\ again.ran
    /\ Len(all_records) = 4
    /\ KeyOf(all_records[1]) = Some(1)
    /\ merge_stats.duplicates_resolved = 1
    /\ merge_stats.missing_key = 1
    /\ Len(output) = 2
    /\ output[1].obj.status = "ok"
    /\ output[2].obj.status = "fail"

\* ---------------------------------------------------------------------- C39
\* C39 as stated: after analyze_jsonl has scanned any ledger, successful_utts
\* and failed_utts are disjoint, their union is unique_utts, and a key is in
\* successful_utts exactly when the ledger holds an ok entry for it, which
\* makes successful_utts the done of the resume replay.
C39_MonitorClassification ==
    monitor.scanned =>
        /\ monitor.successful_utts \cap monitor.failed_utts = {}
        /\ monitor.successful_utts \cup monitor.failed_utts = monitor.unique_utts
        /\ \A x \in AllIds : x \in monitor.successful_utts <=> HasOk(ledger, x)
        /\ Replayed => monitor.successful_utts = done

====
